---- MODULE Spec2Model ----
(***************************************************************************)
(* State-machine model of the task-manager backend: the relational store   *)
(* (users, categories, tasks of database/schema.sql), the authentication   *)
(* guard, the validation middleware and the route handlers of              *)
(* routes/tasks.js, routes/categories.js and routes/users.js.              *)
(*                                                                         *)
(* One action is one HTTP request handled from the guard to the response;  *)
(* requests are handled one at a time.  The last request and its response  *)
(* are kept in req and response so that properties can speak about what   *)
(* was answered.                                                           *)
(*                                                                         *)
(* Values.  A nullable column or an optional JSON value v is <<>> when it  *)
(* is NULL and <<v>> otherwise.  Text is a sequence of one-character       *)
(* strings, so that length bounds of the validation schemas are computed.  *)
(* A request body is a function from the field names it carries to their   *)
(* values.  A calendar date is a day number.                               *)
(***************************************************************************)
EXTENDS Integers, Sequences, FiniteSets, TLC

VARIABLES
    users,           \* table users: id -> row
    categories,      \* table categories: id -> row
    tasks,           \* table tasks: id -> row
    categories_id_seq, \* SERIAL sequence of categories.id (last value given)
    tasks_id_seq,    \* SERIAL sequence of tasks.id (last value given)
    now,             \* the clock read by new Date() and CURRENT_TIMESTAMP
    NODE_ENV,        \* process.env.NODE_ENV
    rateLimit,       \* rateLimiter.js: client address -> timestamps of its requests
    admitted,        \* client address -> timestamps of the requests rateLimiter passed on (history)
    pending,         \* the requests whose handler awaits a query's result
    req,             \* the last request, as the guard and the handler saw it
    response         \* the response sent to it

vars == <<users, categories, tasks, categories_id_seq, tasks_id_seq, now, NODE_ENV,
          rateLimit, admitted, pending, req, response>>

\* the database
store == <<users, categories, tasks, categories_id_seq, tasks_id_seq>>

\* the server process: its environment, the limiter's object and the
\* handlers in flight
process == <<NODE_ENV, rateLimit, admitted, pending>>

----------------------------------------------------------------------------
(* Bounds of the model *)

\* tasks.id values the sequence may hand out
MaxTasks == 2
\* categories.id values the sequence may hand out beyond the default rows
MaxCategories == 2
\* last instant of the clock
MaxTime == 1
\* tasks and categories created in the specifications where time passes
\* or rows of several tables change
MaxTasksSmall == 1
MaxCategoriesSmall == 1
\* the largest number of stored tasks when lists are paged
MaxListedTasks == 23
\* the last instant of the clock when requests pass the rate limiter
MaxClock == 5
\* the handlers that can await a query's result at once
MaxPending == 2

----------------------------------------------------------------------------
(* Optional values and text *)

Null == <<>>
Some(v) == <<v>>
IsNull(x) == Len(x) = 0
Val(x) == x[1]

\* The enumerations of a finite set, and those that respect an order:
\* rows that the order does not tell apart come in any order
Perms(S) ==
    {f \in [1..Cardinality(S) -> S] : \A i, j \in 1..Cardinality(S) : i # j => f[i] # f[j]}

\* ORDER BY key DESC: the orders of the rows S by their keys, largest first
SortedDesc(S, key) ==
    {f \in Perms(S) : \A i, j \in 1..Cardinality(S) : i < j => key[f[i]] >= key[f[j]]}

\* The rows of a table (a function id -> row) without the row id
Without(table, id) == [i \in DOMAIN table \ {id} |-> table[i]]

\* The body's fields that a schema knows (stripUnknown: true)
Strip(body, keys) == [k \in DOMAIN body \cap keys |-> body[k]]

Has(body, k) == k \in DOMAIN body

\* Text is a sequence of characters.  The characters in code point order
Alphabet ==
    <<" ", "#", "%", ".", "0", "1", "2", "3", "4", "5", "6", "7", "8", "9", "@",
      "A", "B", "C", "D", "E", "F", "G", "H", "I", "J", "K", "L", "M",
      "N", "O", "P", "Q", "R", "S", "T", "U", "V", "W", "X", "Y", "Z", "\\", "_",
      "a", "b", "c", "d", "e", "f", "g", "h", "i", "j", "k", "l", "m",
      "n", "o", "p", "q", "r", "s", "t", "u", "v", "w", "x", "y", "z">>

CharCode(c) == CHOOSE i \in 1..Len(Alphabet) : Alphabet[i] = c

\* lower(c): the letters A..Z are 26 places before a..z, after "\\" and "_"
LowerChar(c) ==
    IF CharCode(c) >= CharCode("A") /\ CharCode(c) <= CharCode("Z")
    THEN Alphabet[CharCode(c) + 28]
    ELSE c

Lower(text) == [i \in 1..Len(text) |-> LowerChar(text[i])]

\* a < b for text, character by character
TextLess(a, b) ==
    \E i \in 1..(Len(a) + 1) :
        /\ i <= Len(b) + 1
        /\ \A j \in 1..(i - 1) : a[j] = b[j]
        /\ \/ i > Len(a) /\ i <= Len(b)
           \/ i <= Len(a) /\ i <= Len(b) /\ CharCode(a[i]) < CharCode(b[i])

\* text LIKE pattern, from position i of the text and j of the pattern:
\* "%" stands for any text, "_" for one character, "\\" takes the next
\* character of the pattern literally
RECURSIVE LikeFrom(_, _, _, _)
LikeFrom(text, i, pattern, j) ==
    IF j > Len(pattern) THEN i > Len(text)
    ELSE IF pattern[j] = "%"
    THEN LikeFrom(text, i, pattern, j + 1)
         \/ (i <= Len(text) /\ LikeFrom(text, i + 1, pattern, j))
    ELSE IF pattern[j] = "_"
    THEN i <= Len(text) /\ LikeFrom(text, i + 1, pattern, j + 1)
    ELSE IF pattern[j] = "\\" /\ j < Len(pattern)
    THEN i <= Len(text) /\ text[i] = pattern[j + 1]
         /\ LikeFrom(text, i + 1, pattern, j + 2)
    ELSE i <= Len(text) /\ text[i] = pattern[j]
         /\ LikeFrom(text, i + 1, pattern, j + 1)

\* text ILIKE pattern
ILike(text, pattern) == LikeFrom(Lower(text), 1, Lower(pattern), 1)

----------------------------------------------------------------------------
(* database/schema.sql *)

\* users: the two rows the schema inserts (ids 1 and 2 of the SERIAL key)
SeedUsers ==
    (1 :> [name |-> <<"A", "d", "m", "i", "n", " ", "U", "s", "e", "r">>,
           email |-> <<"a", "d", "m", "i", "n", "@", "e", "x", "a", "m", "p", "l", "e", ".", "c", "o", "m">>, password |-> [bcrypt |-> "secret"],
           avatar_url |-> Null, created_at |-> 0, updated_at |-> 0])
    @@
    (2 :> [name |-> <<"J", "o", "h", "n", " ", "D", "o", "e">>,
           email |-> <<"u", "s", "e", "r", "@", "e", "x", "a", "m", "p", "l", "e", ".", "c", "o", "m">>, password |-> [bcrypt |-> "secret"],
           avatar_url |-> Null, created_at |-> 0, updated_at |-> 0])

\* categories: the four default rows, owner NULL (ids 1..4)
DefaultCategories ==
    (1 :> [name |-> <<"W", "o", "r", "k">>, created_at |-> 0,
           color |-> <<"#", "E", "F", "4", "4", "4", "4">>, user_id |-> Null])
    @@
    (2 :> [name |-> <<"P", "e", "r", "s", "o", "n", "a", "l">>, created_at |-> 0,
           color |-> <<"#", "1", "0", "B", "9", "8", "1">>, user_id |-> Null])
    @@
    (3 :> [name |-> <<"S", "h", "o", "p", "p", "i", "n", "g">>, created_at |-> 0,
           color |-> <<"#", "F", "5", "9", "E", "0", "B">>, user_id |-> Null])
    @@
    (4 :> [name |-> <<"H", "e", "a", "l", "t", "h">>, created_at |-> 0,
           color |-> <<"#", "8", "B", "5", "C", "F", "6">>, user_id |-> Null])

NumDefaultCategories == Cardinality(DOMAIN DefaultCategories)

\* color VARCHAR(7) DEFAULT '#3B82F6' and the schema's default of the same value
DefaultColor == <<"#", "3", "B", "8", "2", "F", "6">>

\* tasks.category_id REFERENCES categories(id): the row may be stored
CategoryFkHolds(category_id) ==
    IsNull(category_id) \/ Val(category_id) \in DOMAIN categories

\* as CascadeCategories, without the cascade
CascadeCategoriesKept(userId) == categories

\* users(id) ON DELETE CASCADE for categories.user_id and tasks.user_id, and
\* categories(id) ON DELETE SET NULL for tasks.category_id
CascadeCategories(userId) ==
    LET kept == {c \in DOMAIN categories : categories[c].user_id # Some(userId)}
    IN  [c \in kept |-> categories[c]]

CascadeTasks(userId) ==
    LET keptCats == DOMAIN CascadeCategories(userId)
        kept == {t \in DOMAIN tasks : tasks[t].user_id # userId}
    IN  [t \in kept |->
            IF IsNull(tasks[t].category_id) \/ Val(tasks[t].category_id) \in keptCats
            THEN tasks[t]
            ELSE [tasks[t] EXCEPT !.category_id = Null]]

\* categories(id) ON DELETE SET NULL when one category row is deleted
SetNullCategory(categoryId) ==
    [t \in DOMAIN tasks |->
        IF tasks[t].category_id = Some(categoryId)
        THEN [tasks[t] EXCEPT !.category_id = Null]
        ELSE tasks[t]]

----------------------------------------------------------------------------
(* Responses and the central error handler *)

\* res.status(status).json({success, message, ...}); the data of a response
\* is kept by kind: task rows in their order, category rows (the order of a
\* category list is not kept) and user rows; taskCount is the number that
\* the message of a refused category deletion spells out
Reply(status, message) ==
    [users |-> <<>>, categories |-> {}, tasks |-> <<>>,
     status |-> status, message |-> message, errors |-> {}, taskCount |-> Null,
     pagination |-> Null, stats |-> Null, recentTasks |-> <<>>, upcomingTasks |-> <<>>,
     stack |-> FALSE, retryAfter |-> Null, headers |-> Null]

\* A storage error as the pg driver raises it: code is the SQLSTATE
PgError(code) ==
    [name |-> "error", status |-> Null, message |-> Some("message of the database"), code |-> Some(code),
     isJoi |-> FALSE]

errorHandler(err) ==
    LET default == [status |-> IF IsNull(err.status) THEN 500 ELSE Val(err.status),
                    message |-> IF IsNull(err.message) THEN "Internal Server Error"
                                ELSE Val(err.message)]
        joi == IF err.isJoi THEN [status |-> 400, message |-> "joi detail message"]
               ELSE default
        pg == IF IsNull(err.code) THEN joi
              ELSE CASE Val(err.code) = "23505" ->
                            [status |-> 409, message |-> "Resource already exists"]
                     [] Val(err.code) = "23503" ->
                            [status |-> 400, message |-> "Referenced resource does not exist"]
                     [] Val(err.code) = "23502" ->
                            [status |-> 400, message |-> "Required field is missing"]
                     [] Val(err.code) = "42P01" ->
                            [status |-> 500, message |-> "Database configuration error"]
                     [] OTHER ->
                            [status |-> 500, message |-> "Database error occurred"]
        jwt == IF err.name = "JsonWebTokenError" THEN [status |-> 401, message |-> "Invalid token"]
               ELSE IF err.name = "TokenExpiredError" THEN [status |-> 401, message |-> "Token expired"]
               ELSE pg
        final == IF NODE_ENV = "production" /\ jwt.status = 500
                 THEN [status |-> 500, message |-> "Internal Server Error"]
                 ELSE jwt
    IN  [Reply(final.status, final.message) EXCEPT !.stack = (NODE_ENV = "development")]

----------------------------------------------------------------------------
(* middleware/auth.js *)

\* An Authorization header is NULL (absent) or <<[scheme, token]>>, the two
\* first words of the header; token is NULL when the header has one word.
\* A token is [sig, userId]: sig is "valid" for a token this server signed
\* that has not expired.
BearerHeader(token) == Some([token |-> Some(token), scheme |-> "Bearer"])
TokenOf(userId) == [userId |-> userId, sig |-> "valid"]

\* utils/jwt verifyToken: the decoded payload, or it throws
verifyToken(token) ==
    IF token.sig = "valid"
    THEN [threw |-> FALSE, decoded |-> [userId |-> token.userId]]
    ELSE [threw |-> TRUE, decoded |-> [userId |-> 0]]

\* as SelectUserProfile, reading the users the schema seeded
SelectUserProfileSeeded(userId) ==
    IF userId \in DOMAIN SeedUsers
    THEN <<[id |-> userId, name |-> SeedUsers[userId].name, email |-> SeedUsers[userId].email,
            avatar_url |-> SeedUsers[userId].avatar_url,
            created_at |-> SeedUsers[userId].created_at]>>
    ELSE <<>>

\* SELECT id, name, email, avatar_url, created_at FROM users WHERE id = $1
SelectUserProfile(userId) ==
    IF userId \in DOMAIN users
    THEN <<[id |-> userId, name |-> users[userId].name, email |-> users[userId].email,
            avatar_url |-> users[userId].avatar_url, created_at |-> users[userId].created_at]>>
    ELSE <<>>

\* The outcome of the guard: next is TRUE when it called next() with
\* req.user = user; otherwise it sent status and message.  verified and
\* queried tell whether verifyToken and the user lookup were run, calls how
\* often next() was called.
authenticateToken(authHeader) ==
    LET token == IF IsNull(authHeader) THEN Null ELSE Val(authHeader).token
    IN  IF IsNull(token)
        THEN [status |-> 401, message |-> "Access token required", next |-> FALSE,
              user |-> Null, verified |-> FALSE, queried |-> FALSE, calls |-> 0]
        ELSE LET v == verifyToken(Val(token))
                 userResult == SelectUserProfile(v.decoded.userId)
             IN  IF v.threw
                 THEN [status |-> 403, message |-> "Invalid or expired token", next |-> FALSE,
                       user |-> Null, verified |-> TRUE, queried |-> FALSE, calls |-> 0]
                 ELSE IF Len(userResult) = 0
                 THEN [status |-> 401, message |-> "User not found", next |-> FALSE,
                       user |-> Null, verified |-> TRUE, queried |-> TRUE, calls |-> 0]
                 ELSE [status |-> 0, message |-> "", next |-> TRUE,
                       user |-> Some(userResult[1]), verified |-> TRUE, queried |-> TRUE,
                       calls |-> 1]

\* as optionalAuth, rejecting as the required guard does
optionalAuthRejecting(authHeader) == authenticateToken(authHeader)

\* optionalAuth: calls counts the calls of next(), one at the end of the try
\* block when nothing threw, one in the catch block when verifyToken threw;
\* no answer is sent (status 0)
optionalAuth(authHeader) ==
    LET token == IF IsNull(authHeader) THEN Null ELSE Val(authHeader).token
    IN  IF IsNull(token)
        THEN [status |-> 0, message |-> "", next |-> TRUE,
              user |-> Null, verified |-> FALSE, queried |-> FALSE, calls |-> 1]
        ELSE LET v == verifyToken(Val(token))
                 userResult == SelectUserProfile(v.decoded.userId)
                 tryCalls == IF v.threw THEN 0 ELSE 1
                 catchCalls == IF v.threw THEN 1 ELSE 0
             IN  [status |-> 0, message |-> "", next |-> tryCalls + catchCalls > 0,
                  user |-> IF ~v.threw /\ Len(userResult) > 0
                           THEN Some(userResult[1]) ELSE Null,
                  verified |-> TRUE, queried |-> ~v.threw,
                  calls |-> tryCalls + catchCalls]

----------------------------------------------------------------------------
(* utils/validation.js *)

Statuses == {"pending", "in_progress", "completed"}
Priorities == {"low", "medium", "high"}

\* /^#[0-9A-F]{6}$/i
HexDigits == {"0", "1", "2", "3", "4", "5", "6", "7", "8", "9",
              "A", "B", "C", "D", "E", "F", "a", "b", "c", "d", "e", "f"}
IsHexColor(v) == Len(v) = 7 /\ v[1] = "#" /\ \A i \in 2..7 : v[i] \in HexDigits

\* Joi.string().email(): one "@" with text on both sides
IsEmail(v) ==
    /\ Cardinality({i \in 1..Len(v) : v[i] = "@"}) = 1
    /\ Len(v) >= 3 /\ v[1] # "@" /\ v[Len(v)] # "@"

\* Joi.string().uri(): a scheme, then ":"
IsUri(v) == \E i \in 2..Len(v) : v[i] = ":" /\ \A j \in 1..(i - 1) : v[j] # ":" /\ v[j] # "/"

SchemaKeys(schema) ==
    CASE schema \in {"taskSchemas.create", "taskSchemas.update"} ->
            {"title", "description", "status", "priority", "due_date", "category_id"}
      [] schema \in {"categorySchemas.create", "categorySchemas.update"} ->
            {"name", "color"}
      [] schema = "userSchemas.updateProfile" ->
            {"name", "email", "avatar_url"}

Required(schema) ==
    CASE schema = "taskSchemas.create" -> {"title"}
      [] schema = "categorySchemas.create" -> {"name"}
      [] OTHER -> {}

Defaults(schema) ==
    CASE schema = "taskSchemas.create" -> [status |-> "pending", priority |-> "medium"]
      [] schema = "categorySchemas.create" -> [color |-> DefaultColor]
      [] OTHER -> << >>

\* The rule of one field of a schema.  A raw due_date is NULL or
\* <<[iso, day]>>: iso tells whether the text is an ISO-8601 date, day is
\* the date it denotes.  A raw category_id is NULL or <<n>>.
FieldOk(schema, k, v) ==
    CASE schema \in {"taskSchemas.create", "taskSchemas.update"} ->
            (CASE k = "title" -> Len(v) >= 1 /\ Len(v) <= 200
               [] k = "description" -> Len(v) <= 1000
               [] k = "status" -> v \in Statuses
               [] k = "priority" -> v \in Priorities
               [] k = "due_date" -> IsNull(v) \/ Val(v).iso
               [] k = "category_id" -> IsNull(v) \/ Val(v) > 0)
      [] schema \in {"categorySchemas.create", "categorySchemas.update"} ->
            (CASE k = "name" -> Len(v) >= 1 /\ Len(v) <= 50
               [] k = "color" -> IsHexColor(v))
      [] schema = "userSchemas.updateProfile" ->
            (CASE k = "name" -> Len(v) >= 2 /\ Len(v) <= 100
               [] k = "email" -> IsEmail(v)
               [] k = "avatar_url" -> Len(v) = 0 \/ IsUri(v))

\* Joi's conversion of an accepted value: an ISO date text becomes its date
Converted(k, v) ==
    IF k = "due_date" THEN (IF IsNull(v) THEN Null ELSE Some(Val(v).day)) ELSE v

\* schema.validate(req.body, {abortEarly: false, stripUnknown: true}):
\* error is the set of offending fields, value the normalized body
validate(schema, body) ==
    LET known == Strip(body, SchemaKeys(schema))
        bad == {k \in DOMAIN known : ~FieldOk(schema, k, known[k])}
               \cup (Required(schema) \ DOMAIN known)
        value == [k \in DOMAIN known |-> Converted(k, known[k])] @@ Defaults(schema)
    IN  [value |-> value, error |-> bad]

ValidationError(bad) == [Reply(400, "Validation error") EXCEPT !.errors = bad]

\* querySchemas.pagination.concat(querySchemas.taskFilters)
QueryKeys ==
    {"page", "limit", "sort", "order", "status", "priority", "category_id",
     "due_date_from", "due_date_to", "search"}

SortColumns == {"created_at", "updated_at", "title", "due_date", "priority"}
Orders == {"asc", "desc"}

QueryDefaults == [page |-> 1, limit |-> 10, sort |-> "created_at", order |-> "desc"]

\* The rule of one query parameter.  A parameter arrives as text: for page,
\* limit and category_id it is [int, n], int telling whether the text
\* denotes an integer and n the number; for the dates [iso, day] as in a body
QueryFieldOk(k, v) ==
    CASE k = "page" -> v.int /\ v.n >= 1
      [] k = "limit" -> v.int /\ v.n >= 1 /\ v.n <= 100
      [] k = "sort" -> v \in SortColumns
      [] k = "order" -> v \in Orders
      [] k = "status" -> v \in Statuses
      [] k = "priority" -> v \in Priorities
      [] k = "category_id" -> v.int /\ v.n > 0
      [] k \in {"due_date_from", "due_date_to"} -> v.iso
      [] k = "search" -> Len(v) >= 1 /\ Len(v) <= 100

\* Joi's conversion of an accepted parameter to a number or a date
QueryConverted(k, v) ==
    CASE k \in {"page", "limit", "category_id"} -> v.n
      [] k \in {"due_date_from", "due_date_to"} -> v.day
      [] OTHER -> v

\* schema.validate(req.query, {abortEarly: false, stripUnknown: true})
validateQuery(query) ==
    LET known == Strip(query, QueryKeys)
        bad == {k \in DOMAIN known : ~QueryFieldOk(k, known[k])}
        value == [k \in DOMAIN known |-> QueryConverted(k, known[k])] @@ QueryDefaults
    IN  [value |-> value, error |-> bad]

QueryValidationError(bad) == [Reply(400, "Query validation error") EXCEPT !.errors = bad]

\* What is recorded of a request: the route, the header, the id parameter,
\* the body as sent (raw) and as the handler read it (body); of the guard:
\* whether it called next(), the req.user it attached, whether it ran
\* verifyToken and the user lookup; and whether the route handler ran
Request(route, authHeader, auth, id, raw, body, handled) ==
    [id |-> id, body |-> body,
     userId |-> IF IsNull(auth.user) THEN Null ELSE Some(Val(auth.user).id),
     authHeader |-> authHeader, next |-> auth.next,
     user |-> auth.user,
     verified |-> auth.verified, queried |-> auth.queried,
     calls |-> auth.calls, route |-> route, raw |-> raw, handled |-> handled,
     ip |-> Null]

NoBody == << >>

\* Before the first request
NoRequest ==
    [id |-> Null, body |-> NoBody, userId |-> Null, authHeader |-> Null,
     next |-> FALSE,
     user |-> Null, verified |-> FALSE, queried |-> FALSE, calls |-> 0,
     route |-> "none", raw |-> NoBody, handled |-> FALSE, ip |-> Null]

\* The guard's rejection: the handler does not run and nothing is stored
Rejected(route, authHeader, auth, id, raw) ==
    /\ req' = Request(route, authHeader, auth, id, raw, raw, FALSE)
    /\ response' = Reply(auth.status, auth.message)
    /\ UNCHANGED <<store, now, process>>

\* The validation middleware's rejection
Invalid(route, authHeader, auth, id, raw, bad) ==
    /\ req' = Request(route, authHeader, auth, id, raw, raw, FALSE)
    /\ response' = ValidationError(bad)
    /\ UNCHANGED <<store, now, process>>

----------------------------------------------------------------------------
(* routes/tasks.js *)

\* The optional column value of an INSERT parameter: undefined is sent as NULL
Param(body, k) == IF Has(body, k) THEN body[k] ELSE Null

\* The columns c.id, c.name, c.color of LEFT JOIN categories c ON t.category_id = c.id
JoinCategory(category_id) ==
    IF ~IsNull(category_id) /\ Val(category_id) \in DOMAIN categories
    THEN [category_id |-> category_id,
          category_name |-> Some(categories[Val(category_id)].name),
          category_color |-> Some(categories[Val(category_id)].color)]
    ELSE [category_id |-> Null, category_name |-> Null, category_color |-> Null]

\* t.id, t.title, ..., t.completed_at, c.id as category_id, c.name, c.color
TaskJoinRow(t) ==
    LET r == tasks[t]
        c == JoinCategory(r.category_id)
    IN  [id |-> t, created_at |-> r.created_at, updated_at |-> r.updated_at, category_id |-> c.category_id,
         status |-> r.status, priority |-> r.priority, category_name |-> c.category_name,
         category_color |-> c.category_color, title |-> r.title,
         description |-> r.description, due_date |-> r.due_date,
         completed_at |-> r.completed_at]

\* RETURNING id, title, description, status, priority, due_date, created_at, updated_at
InsertedTaskRow(id, r) ==
    [id |-> id, created_at |-> r.created_at, updated_at |-> r.updated_at, status |-> r.status,
     priority |-> r.priority, title |-> r.title, description |-> r.description,
     due_date |-> r.due_date]

\* RETURNING ... updated_at, completed_at
UpdatedTaskRow(id, r) ==
    [id |-> id, created_at |-> r.created_at, updated_at |-> r.updated_at, status |-> r.status,
     priority |-> r.priority, title |-> r.title, description |-> r.description,
     due_date |-> r.due_date, completed_at |-> r.completed_at]

\* as SelectTask, without the condition on the owner
SelectTaskAnyOwner(taskId, userId) ==
    {t \in DOMAIN tasks : t = taskId}

\* ... FROM tasks t WHERE t.id = $1 AND t.user_id = $2
SelectTask(taskId, userId) ==
    {t \in DOMAIN tasks : t = taskId /\ tasks[t].user_id = userId}

\* The row INSERT INTO tasks (title, description, status, priority, due_date,
\* category_id, user_id) stores; created_at and updated_at take their
\* defaults and completed_at, which the statement does not name, is NULL
NewTaskRow(body, userId) ==
    [created_at |-> now,
     updated_at |-> now,
     user_id |-> userId, category_id |-> Param(body, "category_id"),
     status |-> body.status,
     priority |-> body.priority,
     title |-> body.title,
     description |-> IF Has(body, "description") THEN Some(body.description) ELSE Null,
     due_date |-> Param(body, "due_date"), completed_at |-> Null]

\* whereConditions.join(' AND '): the task satisfies t.user_id = $1 and the
\* condition of every filter that the query carries
WhereClause(t, userId, q) ==
    LET r == tasks[t]
        pattern == <<"%">> \o q.search \o <<"%">>
    IN  /\ r.user_id = userId
        /\ Has(q, "status") => r.status = q.status
        /\ Has(q, "priority") => r.priority = q.priority
        /\ Has(q, "category_id") => r.category_id = Some(q.category_id)
        /\ Has(q, "due_date_from") => ~IsNull(r.due_date) /\ Val(r.due_date) >= q.due_date_from
        /\ Has(q, "due_date_to") => ~IsNull(r.due_date) /\ Val(r.due_date) <= q.due_date_to
        /\ Has(q, "search") =>
                \/ ILike(r.title, pattern)
                \/ ~IsNull(r.description) /\ ILike(Val(r.description), pattern)

\* t.<sort> of task a is less than that of task b; NULL is larger than any
\* value (NULLS LAST ascending, NULLS FIRST descending)
SortLess(sort, a, b) ==
    CASE sort = "created_at" -> tasks[a].created_at < tasks[b].created_at
      [] sort = "updated_at" -> tasks[a].updated_at < tasks[b].updated_at
      [] sort = "title" -> TextLess(tasks[a].title, tasks[b].title)
      [] sort = "priority" ->
            LET rank == [high |-> 1, low |-> 2, medium |-> 3]
            IN  rank[tasks[a].priority] < rank[tasks[b].priority]
      [] sort = "due_date" ->
            /\ ~IsNull(tasks[a].due_date)
            /\ IsNull(tasks[b].due_date) \/ Val(tasks[a].due_date) < Val(tasks[b].due_date)

\* ORDER BY t.${sort} ${order}: the orders of the rows S; rows with equal
\* sort values come in any order
RECURSIVE OrderBy(_, _, _)
OrderBy(S, sort, order) ==
    IF S = {} THEN {<< >>}
    ELSE LET Before(a, b) == IF order = "asc" THEN SortLess(sort, a, b)
                             ELSE SortLess(sort, b, a)
             first == {m \in S : \A x \in S : ~Before(x, m)}
         IN  UNION {{<<m>> \o rest : rest \in OrderBy(S \ {m}, sort, order)} : m \in first}

\* LIMIT $n OFFSET $m
LimitOffset(rows, limit, offset) ==
    [i \in 1..(IF Len(rows) - offset < 0 THEN 0
               ELSE IF Len(rows) - offset < limit THEN Len(rows) - offset
               ELSE limit) |-> rows[offset + i]]

\* as Pagination, rounding the number of pages down
PaginationFloor(page, limit, totalTasks) ==
    LET totalPages == totalTasks \div limit
    IN  [totalTasks |-> totalTasks, totalPages |-> totalPages, currentPage |-> page,
         hasNextPage |-> page < totalPages, hasPrevPage |-> page > 1]

\* The pagination object of the answer; totalPages = Math.ceil(totalTasks / limit)
Pagination(page, limit, totalTasks) ==
    LET totalPages == IF totalTasks % limit = 0 THEN totalTasks \div limit
                      ELSE totalTasks \div limit + 1
    IN  [totalTasks |-> totalTasks, totalPages |-> totalPages, currentPage |-> page,
         hasNextPage |-> page < totalPages, hasPrevPage |-> page > 1]

\* GET /api/tasks
GetTasks(authHeader, query) ==
    LET route == "GET /tasks"
        auth == authenticateToken(authHeader)
        v == validateQuery(query)
    IN  IF ~auth.next THEN Rejected(route, authHeader, auth, Null, query)
        ELSE IF v.error # {}
        THEN /\ req' = Request(route, authHeader, auth, Null, query, query, FALSE)
             /\ response' = QueryValidationError(v.error)
             /\ UNCHANGED <<store, now, process>>
        ELSE LET userId == Val(auth.user).id
                 q == v.value
                 offset == (q.page - 1) * q.limit
                 found == {t \in DOMAIN tasks : WhereClause(t, userId, q)}
                 totalTasks == Cardinality(found)
             IN  /\ req' = Request(route, authHeader, auth, Null, query, q, TRUE)
                 /\ \E rows \in OrderBy(found, q.sort, q.order) :
                        LET page == LimitOffset(rows, q.limit, offset)
                        IN  response' = [Reply(200, "") EXCEPT
                                !.tasks = [i \in 1..Len(page) |-> TaskJoinRow(page[i])],
                                !.pagination = Some(Pagination(q.page, q.limit, totalTasks))]
                 /\ UNCHANGED <<store, now, process>>

\* CURRENT_DATE: the clock counts days, as the due dates do
CURRENT_DATE == now

\* as SelectStats, counting the completed tasks among the overdue ones
SelectStatsCompletedOverdue(userId) ==
    LET mine == {t \in DOMAIN tasks : tasks[t].user_id = userId}
        Count(S) == Cardinality(S)
    IN  [total_tasks |-> Count(mine),
         completed_tasks |-> Count({t \in mine : tasks[t].status = "completed"}),
         pending_tasks |-> Count({t \in mine : tasks[t].status = "pending"}),
         in_progress_tasks |-> Count({t \in mine : tasks[t].status = "in_progress"}),
         overdue_tasks |-> Count({t \in mine :
            /\ ~IsNull(tasks[t].due_date) /\ Val(tasks[t].due_date) < CURRENT_DATE}),
         due_today_tasks |-> Count({t \in mine :
            /\ ~IsNull(tasks[t].due_date) /\ Val(tasks[t].due_date) = CURRENT_DATE
            /\ tasks[t].status # "completed"})]

\* SELECT COUNT(*) as total_tasks, COUNT(CASE WHEN ... THEN 1 END) as ...
\* FROM tasks WHERE user_id = $1; a comparison with a NULL due_date is not true
SelectStats(userId) ==
    LET mine == {t \in DOMAIN tasks : tasks[t].user_id = userId}
        Count(S) == Cardinality(S)
    IN  [total_tasks |-> Count(mine),
         completed_tasks |-> Count({t \in mine : tasks[t].status = "completed"}),
         pending_tasks |-> Count({t \in mine : tasks[t].status = "pending"}),
         in_progress_tasks |-> Count({t \in mine : tasks[t].status = "in_progress"}),
         overdue_tasks |-> Count({t \in mine :
            /\ ~IsNull(tasks[t].due_date) /\ Val(tasks[t].due_date) < CURRENT_DATE
            /\ tasks[t].status # "completed"}),
         due_today_tasks |-> Count({t \in mine :
            /\ ~IsNull(tasks[t].due_date) /\ Val(tasks[t].due_date) = CURRENT_DATE
            /\ tasks[t].status # "completed"})]

\* GET /api/tasks/stats; thrown is NULL, or the error that the query threw
GetStats(authHeader, thrown) ==
    LET route == "GET /tasks/stats"
        auth == authenticateToken(authHeader)
    IN  IF ~auth.next THEN Rejected(route, authHeader, auth, Null, NoBody)
        ELSE LET userId == Val(auth.user).id
             IN  /\ req' = Request(route, authHeader, auth, Null, NoBody, NoBody, TRUE)
                 /\ response' = IF IsNull(thrown)
                                THEN [Reply(200, "") EXCEPT !.stats = Some(SelectStats(userId))]
                                ELSE errorHandler(Val(thrown))
                 /\ UNCHANGED <<store, now, process>>

\* GET /api/tasks/:id
GetTask(authHeader, taskId) ==
    LET route == "GET /tasks/:id"
        auth == authenticateToken(authHeader)
    IN  IF ~auth.next THEN Rejected(route, authHeader, auth, Some(taskId), NoBody)
        ELSE LET userId == Val(auth.user).id
                 rows == SelectTask(taskId, userId)
             IN  /\ req' = Request(route, authHeader, auth, Some(taskId), NoBody, NoBody, TRUE)
                 /\ response' = IF rows = {} THEN Reply(404, "Task not found")
                                ELSE [Reply(200, "") EXCEPT !.tasks = <<TaskJoinRow(taskId)>>]
                 /\ UNCHANGED <<store, now, process>>

\* POST /api/tasks
PostTask(authHeader, raw) ==
    LET route == "POST /tasks"
        auth == authenticateToken(authHeader)
        v == validate("taskSchemas.create", raw)
    IN  IF ~auth.next THEN Rejected(route, authHeader, auth, Null, raw)
        ELSE IF v.error # {} THEN Invalid(route, authHeader, auth, Null, raw, v.error)
        ELSE LET userId == Val(auth.user).id
                 id == tasks_id_seq + 1
                 row == NewTaskRow(v.value, userId)
             IN  /\ tasks_id_seq < MaxTasks
                 /\ req' = Request(route, authHeader, auth, Null, raw, v.value, TRUE)
                 /\ tasks_id_seq' = id
                 /\ IF CategoryFkHolds(row.category_id)
                    THEN /\ tasks' = tasks @@ (id :> row)
                         /\ response' = [Reply(201, "Task created successfully")
                                            EXCEPT !.tasks = <<InsertedTaskRow(id, row)>>]
                    ELSE /\ tasks' = tasks
                         /\ response' = errorHandler(PgError("23503"))
                 /\ UNCHANGED <<users, categories, categories_id_seq, now, process>>

\* as NoFields, never true
NoFieldsNever(updateFields) == FALSE

\* updateFields.length === 0
NoFields(updateFields) == DOMAIN updateFields = {}

\* as UpdateFields, with the defaults of taskSchemas.create for absent fields
UpdateFieldsWithDefaults(updates) ==
    [k \in DOMAIN updates |-> IF k = "description" THEN Some(updates[k]) ELSE updates[k]]
    @@ [status |-> "pending", priority |-> "medium"]

\* Object.keys(updates).forEach(...): column -> value of the SET list
UpdateFields(updates) ==
    [k \in DOMAIN updates |-> IF k = "description" THEN Some(updates[k]) ELSE updates[k]]

\* as CompletedAtField, stamping whenever the new status is completed
CompletedAtFieldAlways(updates, existingStatus) ==
    IF Has(updates, "status") /\ updates.status = "completed"
    THEN [completed_at |-> Some(now)]
    ELSE IF Has(updates, "status") /\ updates.status # "completed"
    THEN [completed_at |-> Null]
    ELSE << >>

\* The completed_at assignment derived from the new and the stored status
CompletedAtField(updates, existingStatus) ==
    IF Has(updates, "status") /\ updates.status = "completed" /\ existingStatus # "completed"
    THEN [completed_at |-> Some(now)]
    ELSE IF Has(updates, "status") /\ updates.status # "completed"
    THEN [completed_at |-> Null]
    ELSE << >>

\* The row after UPDATE ... SET fields, updated_at = CURRENT_TIMESTAMP
SetColumns(row, fields) ==
    [c \in DOMAIN row |->
        IF c \in DOMAIN fields THEN fields[c]
        ELSE IF c = "updated_at" THEN now
        ELSE row[c]]

\* PUT /api/tasks/:id
PutTask(authHeader, taskId, raw) ==
    LET route == "PUT /tasks/:id"
        auth == authenticateToken(authHeader)
        v == validate("taskSchemas.update", raw)
    IN  IF ~auth.next THEN Rejected(route, authHeader, auth, Some(taskId), raw)
        ELSE IF v.error # {} THEN Invalid(route, authHeader, auth, Some(taskId), raw, v.error)
        ELSE LET userId == Val(auth.user).id
                 updates == v.value
                 existingTask == SelectTask(taskId, userId)
             IN  /\ req' = Request(route, authHeader, auth, Some(taskId), raw, updates, TRUE)
                 /\ IF existingTask = {}
                    THEN /\ response' = Reply(404, "Task not found")
                         /\ tasks' = tasks
                    ELSE LET updateFields == UpdateFields(updates)
                                 @@ CompletedAtField(updates, tasks[taskId].status)
                             row == SetColumns(tasks[taskId], updateFields)
                         IN  IF NoFields(updateFields)
                             THEN /\ response' = Reply(400, "No valid fields to update")
                                  /\ tasks' = tasks
                             ELSE IF ~CategoryFkHolds(row.category_id)
                             THEN /\ response' = errorHandler(PgError("23503"))
                                  /\ tasks' = tasks
                             ELSE /\ response' = [Reply(200, "Task updated successfully")
                                                    EXCEPT !.tasks = <<UpdatedTaskRow(taskId, row)>>]
                                  /\ tasks' = [tasks EXCEPT ![taskId] = row]
                 /\ UNCHANGED <<users, categories, categories_id_seq, tasks_id_seq, now, process>>

\* DELETE FROM tasks WHERE id = $1 AND user_id = $2 RETURNING id
DeleteTask(authHeader, taskId) ==
    LET route == "DELETE /tasks/:id"
        auth == authenticateToken(authHeader)
    IN  IF ~auth.next THEN Rejected(route, authHeader, auth, Some(taskId), NoBody)
        ELSE LET userId == Val(auth.user).id
                 rows == SelectTask(taskId, userId)
             IN  /\ req' = Request(route, authHeader, auth, Some(taskId), NoBody, NoBody, TRUE)
                 /\ IF rows = {}
                    THEN /\ response' = Reply(404, "Task not found")
                         /\ tasks' = tasks
                    ELSE /\ response' = Reply(200, "Task deleted successfully")
                         /\ tasks' = Without(tasks, taskId)
                 /\ UNCHANGED <<users, categories, categories_id_seq, tasks_id_seq, now, process>>

----------------------------------------------------------------------------
(* routes/categories.js *)

\* COUNT(t.id) of LEFT JOIN tasks t ON c.id = t.category_id AND t.user_id = $1,
\* and SELECT COUNT(*) FROM tasks WHERE category_id = $1 AND user_id = $2
CountTasks(categoryId, userId) ==
    Cardinality({t \in DOMAIN tasks :
        tasks[t].category_id = Some(categoryId) /\ tasks[t].user_id = userId})

\* c.id, c.name, c.color, c.created_at, COUNT(t.id) as task_count
CategoryRow(c, taskCount) ==
    [id |-> c, name |-> categories[c].name, color |-> categories[c].color,
     created_at |-> categories[c].created_at, task_count |-> taskCount]

\* WHERE c.user_id = $1 OR c.user_id IS NULL
VisibleCategories(userId) ==
    {c \in DOMAIN categories :
        categories[c].user_id = Some(userId) \/ IsNull(categories[c].user_id)}

\* GET /api/categories
GetCategories(authHeader) ==
    LET route == "GET /categories"
        auth == authenticateToken(authHeader)
    IN  IF ~auth.next THEN Rejected(route, authHeader, auth, Null, NoBody)
        ELSE LET userId == Val(auth.user).id
             IN  /\ req' = Request(route, authHeader, auth, Null, NoBody, NoBody, TRUE)
                 /\ response' = [Reply(200, "") EXCEPT !.categories =
                        {CategoryRow(c, CountTasks(c, userId)) : c \in VisibleCategories(userId)}]
                 /\ UNCHANGED <<store, now, process>>

\* GET /api/categories/:id
GetCategory(authHeader, categoryId) ==
    LET route == "GET /categories/:id"
        auth == authenticateToken(authHeader)
    IN  IF ~auth.next THEN Rejected(route, authHeader, auth, Some(categoryId), NoBody)
        ELSE LET userId == Val(auth.user).id
                 rows == {c \in VisibleCategories(userId) : c = categoryId}
             IN  /\ req' = Request(route, authHeader, auth, Some(categoryId), NoBody, NoBody, TRUE)
                 /\ response' =
                        IF rows = {} THEN Reply(404, "Category not found")
                        ELSE [Reply(200, "") EXCEPT !.categories =
                                {CategoryRow(categoryId, CountTasks(categoryId, userId))}]
                 /\ UNCHANGED <<store, now, process>>

\* SELECT id FROM categories WHERE name = $1 AND user_id = $2
SelectCategoryByName(name, userId) ==
    {c \in DOMAIN categories :
        categories[c].name = name /\ categories[c].user_id = Some(userId)}

\* POST /api/categories
PostCategory(authHeader, raw) ==
    LET route == "POST /categories"
        auth == authenticateToken(authHeader)
        v == validate("categorySchemas.create", raw)
    IN  IF ~auth.next THEN Rejected(route, authHeader, auth, Null, raw)
        ELSE IF v.error # {} THEN Invalid(route, authHeader, auth, Null, raw, v.error)
        ELSE LET userId == Val(auth.user).id
                 existingCategory == SelectCategoryByName(v.value.name, userId)
                 id == categories_id_seq + 1
                 row == [name |-> v.value.name, color |-> v.value.color,
                         user_id |-> Some(userId), created_at |-> now]
             IN  /\ req' = Request(route, authHeader, auth, Null, raw, v.value, TRUE)
                 /\ IF existingCategory # {}
                    THEN /\ response' = Reply(409, "Category with this name already exists")
                         /\ UNCHANGED <<categories, categories_id_seq>>
                    ELSE /\ categories_id_seq < NumDefaultCategories + MaxCategories
                         /\ categories_id_seq' = id
                         /\ categories' = categories @@ (id :> row)
                         /\ response' = [Reply(201, "Category created successfully")
                                EXCEPT !.categories =
                                    {[id |-> id, name |-> row.name, color |-> row.color,
                                      created_at |-> row.created_at, task_count |-> 0]}]
                 /\ UNCHANGED <<users, tasks, tasks_id_seq, now, process>>

\* as OwnedBy, taking a category without owner for the caller's
OwnedByOrDefault(category, userId) ==
    category.user_id = Some(userId) \/ IsNull(category.user_id)

\* !(existingCategory.rows[0].user_id !== userId)
OwnedBy(category, userId) ==
    category.user_id = Some(userId)

\* as SelectDuplicateCategory, with id = $3 for id != $3
SelectDuplicateCategorySameId(name, userId, categoryId) ==
    {c \in DOMAIN categories :
        categories[c].name = name /\ categories[c].user_id = Some(userId) /\ c = categoryId}

\* SELECT id FROM categories WHERE name = $1 AND user_id = $2 AND id != $3
SelectDuplicateCategory(name, userId, categoryId) ==
    {c \in DOMAIN categories :
        categories[c].name = name /\ categories[c].user_id = Some(userId) /\ c # categoryId}

\* PUT /api/categories/:id
PutCategory(authHeader, categoryId, raw) ==
    LET route == "PUT /categories/:id"
        auth == authenticateToken(authHeader)
        v == validate("categorySchemas.update", raw)
    IN  IF ~auth.next THEN Rejected(route, authHeader, auth, Some(categoryId), raw)
        ELSE IF v.error # {}
        THEN Invalid(route, authHeader, auth, Some(categoryId), raw, v.error)
        ELSE LET userId == Val(auth.user).id
                 updates == v.value
                 updateFields == [k \in DOMAIN updates |-> updates[k]]
             IN  /\ req' = Request(route, authHeader, auth, Some(categoryId), raw, updates, TRUE)
                 /\ IF categoryId \notin DOMAIN categories
                    THEN /\ response' = Reply(404, "Category not found")
                         /\ categories' = categories
                    ELSE IF ~OwnedBy(categories[categoryId], userId)
                    THEN /\ response' = Reply(403, "Cannot update default categories")
                         /\ categories' = categories
                    ELSE IF /\ Has(updates, "name")
                            /\ SelectDuplicateCategory(updates.name, userId, categoryId) # {}
                    THEN /\ response' = Reply(409, "Category with this name already exists")
                         /\ categories' = categories
                    ELSE IF NoFields(updateFields)
                    THEN /\ response' = Reply(400, "No valid fields to update")
                         /\ categories' = categories
                    ELSE LET old == categories[categoryId]
                             row == [c \in DOMAIN old |->
                                        IF c \in DOMAIN updateFields THEN updateFields[c]
                                        ELSE old[c]]
                         IN  /\ categories' = [categories EXCEPT ![categoryId] = row]
                             /\ response' = [Reply(200, "Category updated successfully")
                                    EXCEPT !.categories =
                                        {[id |-> categoryId, name |-> row.name,
                                          color |-> row.color, created_at |-> row.created_at]}]
                 /\ UNCHANGED <<users, tasks, categories_id_seq, tasks_id_seq, now, process>>

\* DELETE /api/categories/:id
DeleteCategory(authHeader, categoryId) ==
    LET route == "DELETE /categories/:id"
        auth == authenticateToken(authHeader)
    IN  IF ~auth.next THEN Rejected(route, authHeader, auth, Some(categoryId), NoBody)
        ELSE LET userId == Val(auth.user).id
                 taskCount == CountTasks(categoryId, userId)
             IN  /\ req' = Request(route, authHeader, auth, Some(categoryId), NoBody, NoBody, TRUE)
                 /\ IF categoryId \notin DOMAIN categories
                    THEN /\ response' = Reply(404, "Category not found")
                         /\ UNCHANGED <<categories, tasks>>
                    ELSE IF ~OwnedBy(categories[categoryId], userId)
                    THEN /\ response' = Reply(403, "Cannot delete default categories")
                         /\ UNCHANGED <<categories, tasks>>
                    ELSE IF taskCount > 0
                    THEN /\ response' =
                                [Reply(400, "Cannot delete category. It has ${taskCount} task(s). Please reassign or delete the tasks first.")
                                    EXCEPT !.taskCount = Some(taskCount)]
                         /\ UNCHANGED <<categories, tasks>>
                    ELSE /\ categories' = Without(categories, categoryId)
                         /\ tasks' = SetNullCategory(categoryId)
                         /\ response' = Reply(200, "Category deleted successfully")
                 /\ UNCHANGED <<users, categories_id_seq, tasks_id_seq, now, process>>

\* id, title, ..., completed_at FROM tasks
TaskRow(t) == UpdatedTaskRow(t, tasks[t])

\* GET /api/categories/:id/tasks
GetCategoryTasks(authHeader, categoryId) ==
    LET route == "GET /categories/:id/tasks"
        auth == authenticateToken(authHeader)
    IN  IF ~auth.next THEN Rejected(route, authHeader, auth, Some(categoryId), NoBody)
        ELSE LET userId == Val(auth.user).id
                 categoryResult == {c \in VisibleCategories(userId) : c = categoryId}
                 found == {t \in DOMAIN tasks :
                            tasks[t].category_id = Some(categoryId) /\ tasks[t].user_id = userId}
                 \* ORDER BY created_at DESC
                 created_at == [t \in found |-> tasks[t].created_at]
             IN  /\ req' = Request(route, authHeader, auth, Some(categoryId), NoBody, NoBody, TRUE)
                 /\ IF categoryResult = {}
                    THEN response' = Reply(404, "Category not found")
                    ELSE \E order \in SortedDesc(found, created_at) :
                            response' = [Reply(200, "") EXCEPT
                                !.categories = {[id |-> categoryId,
                                                 name |-> categories[categoryId].name]},
                                !.tasks = [i \in 1..Len(order) |-> TaskRow(order[i])]]
                 /\ UNCHANGED <<store, now, process>>

----------------------------------------------------------------------------
(* routes/users.js *)

\* bcrypt.compare(password, hash)
bcryptCompare(password, hash) == hash = [bcrypt |-> password]

\* SELECT id FROM users WHERE email = $1 AND id != $2
SelectOtherUserByEmail(email, userId) ==
    {u \in DOMAIN users : users[u].email = email /\ u # userId}

\* RETURNING id, name, email, avatar_url, created_at, updated_at
UpdatedUserRow(id, r) ==
    [id |-> id, name |-> r.name, email |-> r.email, avatar_url |-> r.avatar_url,
     created_at |-> r.created_at, updated_at |-> r.updated_at]

\* PUT /api/users/profile
PutProfile(authHeader, raw) ==
    LET route == "PUT /users/profile"
        auth == authenticateToken(authHeader)
        v == validate("userSchemas.updateProfile", raw)
    IN  IF ~auth.next THEN Rejected(route, authHeader, auth, Null, raw)
        ELSE IF v.error # {} THEN Invalid(route, authHeader, auth, Null, raw, v.error)
        ELSE LET userId == Val(auth.user).id
                 updates == v.value
                 updateFields ==
                    [k \in DOMAIN updates |->
                        IF k = "avatar_url" THEN Some(updates[k]) ELSE updates[k]]
             IN  /\ req' = Request(route, authHeader, auth, Null, raw, updates, TRUE)
                 /\ IF /\ Has(updates, "email")
                       /\ SelectOtherUserByEmail(updates.email, userId) # {}
                    THEN /\ response' = Reply(409, "Email is already taken")
                         /\ users' = users
                    ELSE IF NoFields(updateFields)
                    THEN /\ response' = Reply(400, "No valid fields to update")
                         /\ users' = users
                    ELSE LET row == SetColumns(users[userId], updateFields)
                         IN  /\ users' = [users EXCEPT ![userId] = row]
                             /\ response' = [Reply(200, "Profile updated successfully")
                                    EXCEPT !.users = <<UpdatedUserRow(userId, row)>>]
                 /\ UNCHANGED <<categories, tasks, categories_id_seq, tasks_id_seq, now, process>>

\* t.id, t.title, t.status, t.priority, t.due_date, [t.created_at,]
\* c.name as category_name, c.color as category_color
DashboardRow(t, columns) ==
    LET row == TaskJoinRow(t) IN [c \in columns |-> row[c]]

\* GET /api/users/dashboard
GetDashboard(authHeader) ==
    LET route == "GET /users/dashboard"
        auth == authenticateToken(authHeader)
    IN  IF ~auth.next THEN Rejected(route, authHeader, auth, Null, NoBody)
        ELSE LET userId == Val(auth.user).id
                 mine == {t \in DOMAIN tasks : tasks[t].user_id = userId}
                 \* t.due_date BETWEEN CURRENT_DATE AND CURRENT_DATE + INTERVAL '7 days'
                 upcoming == {t \in mine :
                                /\ ~IsNull(tasks[t].due_date)
                                /\ Val(tasks[t].due_date) >= CURRENT_DATE
                                /\ Val(tasks[t].due_date) <= CURRENT_DATE + 7
                                /\ tasks[t].status # "completed"}
                 columns == {"id", "title", "status", "priority", "due_date",
                             "category_name", "category_color"}
             IN  /\ req' = Request(route, authHeader, auth, Null, NoBody, NoBody, TRUE)
                 /\ \E recent \in OrderBy(mine, "created_at", "desc"),
                       coming \in OrderBy(upcoming, "due_date", "asc") :
                        LET recentTasks == LimitOffset(recent, 5, 0)
                            upcomingTasks == LimitOffset(coming, 5, 0)
                        IN  response' = [Reply(200, "") EXCEPT
                                !.stats = Some(SelectStats(userId)),
                                !.recentTasks = [i \in 1..Len(recentTasks) |->
                                    DashboardRow(recentTasks[i], columns \cup {"created_at"})],
                                !.upcomingTasks = [i \in 1..Len(upcomingTasks) |->
                                    DashboardRow(upcomingTasks[i], columns)]]
                 /\ UNCHANGED <<store, now, process>>

\* DELETE /api/users/account; the body is read as sent (no schema)
DeleteAccount(authHeader, raw) ==
    LET route == "DELETE /users/account"
        auth == authenticateToken(authHeader)
    IN  IF ~auth.next THEN Rejected(route, authHeader, auth, Null, raw)
        ELSE LET userId == Val(auth.user).id
             IN  /\ req' = Request(route, authHeader, auth, Null, raw, raw, TRUE)
                 /\ IF ~Has(raw, "password") \/ raw.password = ""
                    THEN /\ response' = Reply(400, "Password is required to delete account")
                         /\ UNCHANGED <<users, categories, tasks>>
                    ELSE IF userId \notin DOMAIN users
                    THEN /\ response' = Reply(404, "User not found")
                         /\ UNCHANGED <<users, categories, tasks>>
                    ELSE IF ~bcryptCompare(raw.password, users[userId].password)
                    THEN /\ response' = Reply(401, "Password is incorrect")
                         /\ UNCHANGED <<users, categories, tasks>>
                    ELSE /\ users' = Without(users, userId)
                         /\ categories' = CascadeCategories(userId)
                         /\ tasks' = CascadeTasks(userId)
                         /\ response' = Reply(200, "Account deleted successfully")
                 /\ UNCHANGED <<categories_id_seq, tasks_id_seq, now, process>>

----------------------------------------------------------------------------
(* The state after the schema is loaded; the demonstration tasks of the     *)
(* schema are not loaded.                                                   *)

NodeEnvs == {"production", "development", "unset"}

Init ==
    /\ users = SeedUsers
    /\ categories = DefaultCategories
    /\ tasks = << >>
    /\ categories_id_seq = NumDefaultCategories
    /\ tasks_id_seq = 0
    /\ now = 0
    /\ NODE_ENV \in NodeEnvs
    /\ rateLimit = << >>
    /\ admitted = << >>
    /\ pending = << >>
    /\ req = NoRequest
    /\ response = Reply(0, "")

TypeOK ==
    /\ DOMAIN users \subseteq DOMAIN SeedUsers
    /\ tasks_id_seq \in 0..MaxTasks
    /\ categories_id_seq \in NumDefaultCategories..(NumDefaultCategories + MaxCategories)
    /\ DOMAIN tasks \subseteq 1..tasks_id_seq
    /\ DOMAIN categories \subseteq 1..categories_id_seq
    /\ \A t \in DOMAIN tasks :
          /\ tasks[t].status \in Statuses /\ tasks[t].priority \in Priorities
          /\ tasks[t].user_id \in DOMAIN users
          /\ CategoryFkHolds(tasks[t].category_id)
    /\ now \in 0..MaxClock
    /\ NODE_ENV \in NodeEnvs

\* Time passes
Tick ==
    /\ now < MaxTime
    /\ now' = now + 1
    /\ UNCHANGED <<store, process, req, response>>

----------------------------------------------------------------------------
(* Requests *)

TaskIds == 1..MaxTasks

\* Authorization headers carrying the token the login route signs for a user
AuthOf(userId) == BearerHeader(TokenOf(userId))

----------------------------------------------------------------------------
(* Task status and completed_at: one user creates and updates tasks while   *)
(* time passes                                                              *)

StatusCreateBodies ==
    {[title |-> <<"a">>],
     [status |-> "in_progress", title |-> <<"a">>],
     [status |-> "completed", title |-> <<"a">>]}

StatusUpdateBodies ==
    {[status |-> "pending"], [status |-> "in_progress"], [status |-> "completed"],
     [title |-> <<"b">>], [status |-> "completed", title |-> <<"b">>]}

InitProduction == Init /\ NODE_ENV = "production"

NextStatus ==
    \/ \E raw \in StatusCreateBodies :
            tasks_id_seq < MaxTasksSmall /\ PostTask(AuthOf(1), raw)
    \/ \E id \in TaskIds, raw \in StatusUpdateBodies : PutTask(AuthOf(1), id, raw)
    \/ Tick

SpecStatus == InitProduction /\ [][NextStatus]_vars

\* A step that handled a request (req and response are those of this step)
Handled(route) ==
    /\ req'.route = route
    /\ <<store, req, response>>' # <<store, req, response>>

\* C1: after any sequence of POST /tasks and PUT /tasks/:id, every stored task
\* has completed_at non-null if and only if its status is 'completed'
C1_CompletedAtIffCompleted ==
    \A t \in DOMAIN tasks :
        (~IsNull(tasks[t].completed_at)) <=> (tasks[t].status = "completed")

\* C8: a successful PUT with status 'completed' keeps completed_at of a task
\* that is stored as completed, whatever else the body carries, and sets it
\* to the time of the request when the stored status is another one
C8_CompletedAtKeptOrRestamped ==
    [][(/\ Handled("PUT /tasks/:id")
        /\ response'.status = 200
        /\ Has(req'.body, "status") /\ req'.body.status = "completed")
       => LET id == Val(req'.id)
          IN  IF tasks[id].status = "completed"
              THEN tasks'[id].completed_at = tasks[id].completed_at
              ELSE tasks'[id].completed_at = Some(now')]_vars

\* C8 witness: a task completed at an earlier instant was set to completed
\* again, with another field, and still carries the first instant
C8_Witness ==
    /\ req.route = "PUT /tasks/:id" /\ response.status = 200
    /\ DOMAIN req.body = {"status", "title"} /\ req.body.status = "completed"
    /\ LET id == Val(req.id)
       IN  /\ id \in DOMAIN tasks
           /\ tasks[id].updated_at = now
           /\ ~IsNull(tasks[id].completed_at)
           /\ Val(tasks[id].completed_at) < now

----------------------------------------------------------------------------
(* Task ownership: two users create, read, update and delete tasks by id    *)

OwnershipCreateBodies == {[title |-> <<"a">>]}

\* the last two are refused by the schema: an unknown status, an empty title
OwnershipUpdateBodies ==
    {<< >>, [title |-> <<"b">>], [status |-> "completed"],
     [status |-> "done"], [priority |-> "high", title |-> <<>>]}

NextOwnership ==
    \/ \E u \in DOMAIN SeedUsers, raw \in OwnershipCreateBodies : PostTask(AuthOf(u), raw)
    \/ \E u \in DOMAIN SeedUsers, id \in TaskIds : GetTask(AuthOf(u), id)
    \/ \E u \in DOMAIN SeedUsers, id \in TaskIds, raw \in OwnershipUpdateBodies :
            PutTask(AuthOf(u), id, raw)
    \/ \E u \in DOMAIN SeedUsers, id \in TaskIds : DeleteTask(AuthOf(u), id)

SpecOwnership == InitProduction /\ [][NextOwnership]_vars

TaskByIdRoutes == {"GET /tasks/:id", "PUT /tasks/:id", "DELETE /tasks/:id"}

\* This step is a request by an authenticated user for a stored task of
\* another user
OnForeignTask ==
    /\ \E route \in TaskByIdRoutes : Handled(route)
    /\ ~IsNull(req'.userId)
    /\ Val(req'.id) \in DOMAIN tasks
    /\ tasks[Val(req'.id)].user_id # Val(req'.userId)

\* C2 as stated: GET, PUT and DELETE /tasks/:id on another user's task always
\* answer 404 'Task not found' without data and leave the task stored unchanged
C2_ForeignTaskAlways404 ==
    [][OnForeignTask =>
        /\ response'.status = 404 /\ response'.message = "Task not found"
        /\ response'.tasks = <<>>
        /\ tasks' = tasks]_vars

\* C2 amended: the answer is 404 'Task not found', except that a PUT whose
\* body the schema refuses is answered 400 'Validation error' before any
\* lookup; in no case is it 403 or the task's data, and the task is unchanged
C2_ForeignTask404OrInvalidBody ==
    [][OnForeignTask =>
        /\ IF req'.route = "PUT /tasks/:id" /\ validate("taskSchemas.update", req'.raw).error # {}
           THEN response'.status = 400 /\ response'.message = "Validation error"
           ELSE response'.status = 404 /\ response'.message = "Task not found"
        /\ response'.tasks = <<>>
        /\ tasks' = tasks]_vars

\* C2 witness: user 2 asked to delete a stored task of user 1 and got 404
C2_Witness ==
    /\ req.route = "DELETE /tasks/:id" /\ req.userId = Some(2)
    /\ Val(req.id) \in DOMAIN tasks /\ tasks[Val(req.id)].user_id = 1
    /\ response.status = 404

----------------------------------------------------------------------------
(* Categories: two users create, rename, recolour and delete categories     *)

\* the ids of a default category, of the categories users may create and of
\* a category that is never stored
CategoryIds == {1} \cup ((NumDefaultCategories + 1)..(NumDefaultCategories + MaxCategories + 1))

CategoryCreateBodies == {[name |-> <<"a">>], [name |-> <<"b">>]}

\* the last one is refused by the schema: red is no hex colour
CategoryUpdateBodies ==
    {<< >>, [name |-> <<"a">>],
     [color |-> <<"#", "a", "b", "c", "d", "e", "f">>],
     [color |-> <<"r", "e", "d">>]}

NextCategories ==
    \/ \E u \in DOMAIN SeedUsers, raw \in CategoryCreateBodies : PostCategory(AuthOf(u), raw)
    \/ \E u \in DOMAIN SeedUsers, id \in CategoryIds, raw \in CategoryUpdateBodies :
            PutCategory(AuthOf(u), id, raw)
    \/ \E u \in DOMAIN SeedUsers, id \in CategoryIds : DeleteCategory(AuthOf(u), id)

SpecCategories == InitProduction /\ [][NextCategories]_vars

\* The categories a user owns that carry a name
OwnedNamed(userId, name) ==
    {c \in DOMAIN categories :
        categories[c].user_id = Some(userId) /\ categories[c].name = name}

\* C5: no two categories of the same owning user share a name; a POST
\* /categories or a renaming PUT /categories/:id that would give the caller a
\* second category of a name is answered 409 and changes nothing, and is
\* accepted otherwise, also when another owner has a category of that name
C5_NameUniquePerOwner ==
    /\ [](\A c1, c2 \in DOMAIN categories :
            (/\ c1 # c2
             /\ ~IsNull(categories[c1].user_id)
             /\ categories[c1].user_id = categories[c2].user_id)
            => categories[c1].name # categories[c2].name)
    /\ [][(Handled("POST /categories") /\ req'.handled)
          => LET u == Val(req'.userId)
                 name == req'.body.name
             IN  IF OwnedNamed(u, name) # {}
                 THEN response'.status = 409 /\ store' = store
                 ELSE /\ response'.status = 201
                      /\ \E c \in DOMAIN categories' \ DOMAIN categories :
                            /\ categories'[c].user_id = Some(u)
                            /\ categories'[c].name = name]_vars
    /\ [][(/\ Handled("PUT /categories/:id") /\ req'.handled
           /\ Has(req'.body, "name")
           /\ Val(req'.id) \in DOMAIN categories
           /\ categories[Val(req'.id)].user_id = req'.userId)
          => LET u == Val(req'.userId)
                 id == Val(req'.id)
                 name == req'.body.name
             IN  IF OwnedNamed(u, name) \ {id} # {}
                 THEN response'.status = 409 /\ store' = store
                 ELSE response'.status = 200 /\ categories'[id].name = name]_vars

\* C5 witness: two owners each have a category of one name, and the one who
\* asked for a second category of that name got 409
C5_Witness ==
    /\ req.route = "POST /categories" /\ response.status = 409
    /\ \E c1, c2 \in DOMAIN categories :
        /\ categories[c1].user_id = req.userId
        /\ ~IsNull(categories[c2].user_id) /\ categories[c2].user_id # req.userId
        /\ categories[c1].name = req.body.name
        /\ categories[c2].name = req.body.name

CategoryMutations == {"PUT /categories/:id", "DELETE /categories/:id"}

\* The categories that the user of this step's request does not own are
\* stored after the step as before
ForeignCategoriesKept ==
    \A c \in DOMAIN categories :
        categories[c].user_id # req'.userId =>
            c \in DOMAIN categories' /\ categories'[c] = categories[c]

\* C6 as stated: PUT and DELETE /categories/:id leave every category the
\* caller does not own as it is, answering 404 for an id that is not stored
\* and 403 for a stored category of another owner or of none
C6_ForeignCategory404Or403 ==
    [][((\E route \in CategoryMutations : Handled(route)) /\ ~IsNull(req'.userId))
       => LET id == Val(req'.id)
          IN  /\ ForeignCategoriesKept
              /\ id \notin DOMAIN categories
                    => response'.status = 404 /\ store' = store
              /\ (id \in DOMAIN categories /\ categories[id].user_id # req'.userId)
                    => response'.status = 403 /\ store' = store]_vars

\* C6 amended: the same, except that a PUT whose body the schema refuses is
\* answered 400 'Validation error' before any lookup
C6_ForeignCategory404Or403OrInvalidBody ==
    [][((\E route \in CategoryMutations : Handled(route)) /\ ~IsNull(req'.userId))
       => LET id == Val(req'.id)
              invalid == /\ req'.route = "PUT /categories/:id"
                         /\ validate("categorySchemas.update", req'.raw).error # {}
          IN  /\ ForeignCategoriesKept
              /\ invalid => /\ response'.status = 400
                            /\ response'.message = "Validation error"
                            /\ store' = store
              /\ (~invalid /\ id \notin DOMAIN categories)
                    => response'.status = 404 /\ store' = store
              /\ (~invalid /\ id \in DOMAIN categories /\ categories[id].user_id # req'.userId)
                    => response'.status = 403 /\ store' = store]_vars

\* C6 witness: a user asked to recolour a category of another user, got 403
\* and the category is as it was created
C6_Witness ==
    /\ req.route = "PUT /categories/:id" /\ response.status = 403
    /\ Has(req.body, "color")
    /\ Val(req.id) \in DOMAIN categories
    /\ ~IsNull(categories[Val(req.id)].user_id)
    /\ categories[Val(req.id)].user_id # req.userId
    /\ categories[Val(req.id)].color = DefaultColor

----------------------------------------------------------------------------
(* Updates: user 1 creates a task and a category; both users send updates   *)
(* of tasks, categories and their profile, with and without known fields    *)

\* bodies without a field of taskSchemas.update, and one with
TaskUpdateBodies ==
    {<< >>, [user_id |-> 2, completed_at |-> Some(1)], [title |-> <<"b">>]}

CategoryRenameBodies ==
    {<< >>, [id |-> 1, user_id |-> Some(2)], [name |-> <<"b">>]}

ProfileUpdateBodies ==
    {<< >>, [id |-> 2, password |-> [bcrypt |-> "x"]], [name |-> <<"A", "n", "n">>],
     [email |-> SeedUsers[2].email]}

NextUpdates ==
    \/ tasks_id_seq < MaxTasksSmall /\ PostTask(AuthOf(1), [title |-> <<"a">>])
    \/ /\ categories_id_seq < NumDefaultCategories + MaxCategoriesSmall
       /\ PostCategory(AuthOf(1), [name |-> <<"a">>])
    \/ \E u \in DOMAIN SeedUsers, id \in 1..(MaxTasksSmall + 1), raw \in TaskUpdateBodies :
            PutTask(AuthOf(u), id, raw)
    \/ \E u \in DOMAIN SeedUsers, raw \in CategoryRenameBodies :
       \E id \in {1} \cup ((NumDefaultCategories + 1)..(NumDefaultCategories + MaxCategoriesSmall + 1)) :
            PutCategory(AuthOf(u), id, raw)
    \/ \E u \in DOMAIN SeedUsers, raw \in ProfileUpdateBodies : PutProfile(AuthOf(u), raw)

SpecUpdates == InitProduction /\ [][NextUpdates]_vars

UpdateSchema(route) ==
    CASE route = "PUT /tasks/:id" -> "taskSchemas.update"
      [] route = "PUT /categories/:id" -> "categorySchemas.update"
      [] route = "PUT /users/profile" -> "userSchemas.updateProfile"

\* This step is an update call of an authenticated user whose body carries
\* no field that the route's schema knows
UpdateWithoutKnownField ==
    /\ \E route \in {"PUT /tasks/:id", "PUT /categories/:id", "PUT /users/profile"} :
            Handled(route)
    /\ req'.next
    /\ DOMAIN req'.raw \cap SchemaKeys(UpdateSchema(req'.route)) = {}

\* C7 as stated: every update call with zero recognized fields is answered
\* 400 'No valid fields to update' and no stored row is written
C7_NoFieldsAlways400 ==
    [][UpdateWithoutKnownField =>
        /\ response'.status = 400 /\ response'.message = "No valid fields to update"
        /\ store' = store]_vars

\* C7 amended: no stored row is written; the answer is 400 'No valid fields
\* to update' when the target is a task or a category of the caller, or the
\* caller's profile; it is 404 for a task that is not stored or not the
\* caller's and for a category that is not stored, and 403 for a stored
\* category the caller does not own, because the lookup comes first
C7_NoFields400AfterLookup ==
    [][UpdateWithoutKnownField =>
        LET u == Val(req'.userId)
            expected ==
                CASE req'.route = "PUT /tasks/:id" ->
                        IF Val(req'.id) \in DOMAIN tasks /\ tasks[Val(req'.id)].user_id = u
                        THEN <<400, "No valid fields to update">>
                        ELSE <<404, "Task not found">>
                  [] req'.route = "PUT /categories/:id" ->
                        IF Val(req'.id) \notin DOMAIN categories
                        THEN <<404, "Category not found">>
                        ELSE IF categories[Val(req'.id)].user_id # Some(u)
                        THEN <<403, "Cannot update default categories">>
                        ELSE <<400, "No valid fields to update">>
                  [] req'.route = "PUT /users/profile" ->
                        <<400, "No valid fields to update">>
        IN  /\ <<response'.status, response'.message>> = expected
            /\ store' = store]_vars

\* C7 witness: a PUT of fields that the task schema does not know, for a task
\* of the caller, was answered 400 and the task is as it was created
C7_Witness ==
    /\ req.route = "PUT /tasks/:id" /\ response.status = 400
    /\ DOMAIN req.raw = {"completed_at", "user_id"} /\ DOMAIN req.body = {}
    /\ Val(req.id) \in DOMAIN tasks
    /\ Some(tasks[Val(req.id)].user_id) = req.userId
    /\ tasks[Val(req.id)].updated_at = tasks[Val(req.id)].created_at

----------------------------------------------------------------------------
(* Categories and the tasks that reference them: user 1 creates categories, *)
(* both users create tasks with a category_id, read, move and delete them   *)

\* a default category, the categories users create, and an id never stored
ReferencedCategoryIds ==
    {1} \cup ((NumDefaultCategories + 1)..(NumDefaultCategories + MaxCategoriesSmall + 1))

CategoryTaskBodies ==
    {[category_id |-> Some(c), title |-> <<"a">>] : c \in ReferencedCategoryIds}

CategoryMoveBodies ==
    {[category_id |-> Null], [category_id |-> Some(NumDefaultCategories + 1)]}

NextCategoryTasks ==
    \/ /\ categories_id_seq < NumDefaultCategories + MaxCategoriesSmall
       /\ PostCategory(AuthOf(1), [name |-> <<"a">>])
    \/ \E u \in DOMAIN SeedUsers, raw \in CategoryTaskBodies :
            tasks_id_seq < MaxTasksSmall /\ PostTask(AuthOf(u), raw)
    \/ \E u \in DOMAIN SeedUsers, id \in 1..MaxTasksSmall, raw \in CategoryMoveBodies :
            PutTask(AuthOf(u), id, raw)
    \/ \E u \in DOMAIN SeedUsers, id \in 1..MaxTasksSmall : GetTask(AuthOf(u), id)
    \/ \E u \in DOMAIN SeedUsers, id \in 1..MaxTasksSmall : DeleteTask(AuthOf(u), id)
    \/ \E u \in DOMAIN SeedUsers : GetCategories(AuthOf(u))
    \/ \E u \in DOMAIN SeedUsers, id \in ReferencedCategoryIds : GetCategory(AuthOf(u), id)
    \/ \E u \in DOMAIN SeedUsers, id \in ReferencedCategoryIds : GetCategoryTasks(AuthOf(u), id)
    \/ \E u \in DOMAIN SeedUsers, id \in ReferencedCategoryIds : DeleteCategory(AuthOf(u), id)

SpecCategoryTasks == InitProduction /\ [][NextCategoryTasks]_vars

\* The stored category c is owned by a user other than userId
ForeignCategory(c, userId) ==
    /\ c \in DOMAIN categories
    /\ ~IsNull(categories[c].user_id)
    /\ categories[c].user_id # Some(userId)

ReadRoutes ==
    {"GET /tasks/:id", "GET /categories", "GET /categories/:id", "GET /categories/:id/tasks"}

\* C3: no task of one user references a category owned by a different user,
\* and the answer to a read (single task, category list, category, category
\* tasks) carries no category owned by a user other than the caller
C3_CategoryReachableOnlyByOwner ==
    /\ \A t \in DOMAIN tasks :
            ~IsNull(tasks[t].category_id) =>
                ~ForeignCategory(Val(tasks[t].category_id), tasks[t].user_id)
    /\ (req.route \in ReadRoutes /\ req.handled) =>
            /\ \A i \in 1..Len(response.tasks) :
                    "category_id" \in DOMAIN response.tasks[i] =>
                        \/ IsNull(response.tasks[i].category_id)
                        \/ ~ForeignCategory(Val(response.tasks[i].category_id), Val(req.userId))
            /\ \A c \in response.categories : ~ForeignCategory(c.id, Val(req.userId))

\* the tasks of any user that reference the category
ReferencingTasks(categoryId) ==
    {t \in DOMAIN tasks : tasks[t].category_id = Some(categoryId)}

\* C4: DELETE /categories/:id by the category's owner is rejected with the
\* number N of referencing tasks, the category and the tasks left as they
\* are, when N > 0, and removes the category when N = 0
C4_DeleteRejectedWhileReferenced ==
    [][(/\ Handled("DELETE /categories/:id")
        /\ req'.next
        /\ Val(req'.id) \in DOMAIN categories
        /\ categories[Val(req'.id)].user_id = req'.userId)
        => LET N == Cardinality(ReferencingTasks(Val(req'.id)))
           IN  IF N > 0
               THEN /\ response'.status = 400
                    /\ response'.taskCount = Some(N)
                    /\ <<categories, tasks>>' = <<categories, tasks>>
               ELSE /\ response'.status = 200
                    /\ Val(req'.id) \notin DOMAIN categories']_vars

----------------------------------------------------------------------------
(* The guard: requests with every kind of Authorization header, while       *)
(* accounts are deleted                                                     *)

\* no header; a header of one word; tokens that do not verify; the tokens of
\* the stored users; a token of a user that was never stored
AuthHeaders ==
    {Null,
     Some([token |-> Null, scheme |-> "Bearer"]),
     BearerHeader([userId |-> 1, sig |-> "forged"]),
     BearerHeader([userId |-> 2, sig |-> "expired"])}
    \cup {AuthOf(u) : u \in 1..(Len(SeedUsers) + 1)}

AccountBodies == {<< >>, [password |-> "secret"], [password |-> "guess"]}

NextAuth ==
    \/ \E h \in AuthHeaders : tasks_id_seq < MaxTasksSmall /\ PostTask(h, [title |-> <<"a">>])
    \/ \E h \in AuthHeaders, id \in 1..MaxTasksSmall : GetTask(h, id)
    \/ \E h \in AuthHeaders : GetCategories(h)
    \/ \E h \in AuthHeaders, raw \in AccountBodies : DeleteAccount(h, raw)

SpecAuth == InitProduction /\ [][NextAuth]_vars

\* A step that answered a request
Answered ==
    /\ req'.route # "none"
    /\ <<store, req, response>>' # <<store, req, response>>

\* C9: the guard calls the handler iff the header carries a token that
\* verifies and whose user id is that of a user stored when the request
\* arrives; req.user is then that user's id, name, email, avatar_url and
\* created_at; otherwise a rejection is sent, the handler does not run and
\* nothing is stored; without a token neither verification nor the user
\* lookup is run.  The token of a deleted account is thereby rejected.
C9_GuardPassesIffStoredUser ==
    [][Answered =>
        LET h == req'.authHeader
            token == IF IsNull(h) THEN Null ELSE Val(h).token
            passes == /\ ~IsNull(token)
                      /\ Val(token).sig = "valid"
                      /\ Val(token).userId \in DOMAIN users
        IN  /\ req'.next <=> passes
            /\ passes =>
                    LET u == Val(token).userId
                    IN  req'.user = Some([id |-> u, name |-> users[u].name,
                                         email |-> users[u].email,
                                         avatar_url |-> users[u].avatar_url,
                                         created_at |-> users[u].created_at])
            /\ ~passes => /\ ~req'.handled
                          /\ response'.status \in {401, 403}
                          /\ store' = store
            /\ IsNull(token) => ~req'.verified /\ ~req'.queried]_vars

\* C9 witness: the valid token of user 2, whose account was deleted, was
\* rejected with 'User not found' and the handler did not run
C9_Witness ==
    /\ req.authHeader = AuthOf(2) /\ 2 \notin DOMAIN users
    /\ req.route = "GET /tasks/:id"
    /\ ~req.next /\ ~req.handled /\ req.verified /\ req.queried
    /\ response.status = 401 /\ response.message = "User not found"

\* C10: every rejection of the guard has status 401 and the message of every
\* other rejection of the guard, whichever check failed
C10_AuthFailure401Generic ==
    (req.route # "none" /\ ~req.next) =>
        /\ response.status = 401
        /\ \A h \in AuthHeaders :
                ~authenticateToken(h).next => authenticateToken(h).message = response.message

----------------------------------------------------------------------------
(* The optional guard.  No route of the repository mounts optionalAuth; the *)
(* step below is the middleware alone, up to its call of next()             *)

OptionalAuthRequest(authHeader) ==
    LET auth == optionalAuth(authHeader)
    IN  /\ req' = Request("optionalAuth", authHeader, auth, Null, NoBody, NoBody, auth.next)
        /\ response' = Reply(auth.status, auth.message)
        /\ UNCHANGED <<store, now, process>>

NextOptionalAuth ==
    \/ \E h \in AuthHeaders : OptionalAuthRequest(h)
    \/ \E h \in AuthHeaders, raw \in AccountBodies : DeleteAccount(h, raw)
    \/ \E u \in DOMAIN SeedUsers : PutProfile(AuthOf(u), [name |-> <<"A", "n", "n">>])

SpecOptionalAuth == InitProduction /\ [][NextOptionalAuth]_vars

\* C11: optionalAuth sends no answer and calls next() exactly once; req.user
\* is the stored user's profile when the token is present, verifies and names
\* a stored user, and no identity is attached otherwise
C11_OptionalAuthNeverRejects ==
    [][(Answered /\ req'.route = "optionalAuth") =>
        LET h == req'.authHeader
            token == IF IsNull(h) THEN Null ELSE Val(h).token
            resolves == /\ ~IsNull(token)
                        /\ Val(token).sig = "valid"
                        /\ Val(token).userId \in DOMAIN users
        IN  /\ req'.calls = 1 /\ req'.next /\ req'.handled
            /\ response'.status = 0
            /\ store' = store
            /\ resolves =>
                    LET u == Val(token).userId
                    IN  req'.user = Some([id |-> u, name |-> users[u].name,
                                         email |-> users[u].email,
                                         avatar_url |-> users[u].avatar_url,
                                         created_at |-> users[u].created_at])
            /\ ~resolves => IsNull(req'.user) /\ IsNull(req'.userId)]_vars

\* C11 witness: the optional guard went on without identity for the valid
\* token of a deleted account
C11_Witness ==
    /\ req.route = "optionalAuth" /\ req.calls = 1 /\ response.status = 0
    /\ req.authHeader = AuthOf(2) /\ 2 \notin DOMAIN users /\ IsNull(req.user)

----------------------------------------------------------------------------
(* Paging: user 1 has stored some tasks, one per clock instant up to now,   *)
(* and lists them page by page                                              *)

ListedTask(i, n) ==
    [created_at |-> i - n, updated_at |-> i - n, user_id |-> 1, category_id |-> Null,
     status |-> "pending", priority |-> "medium", title |-> <<"a">>,
     description |-> Null, due_date |-> Null, completed_at |-> Null]

\* The state of Init after n tasks were stored
InitListed ==
    /\ users = SeedUsers
    /\ categories = DefaultCategories
    /\ categories_id_seq = NumDefaultCategories
    /\ \E n \in 0..MaxListedTasks :
            /\ tasks = [i \in 1..n |-> ListedTask(i, n)]
            /\ tasks_id_seq = n
    /\ now = 0
    /\ NODE_ENV = "production"
    /\ rateLimit = << >>
    /\ admitted = << >>
    /\ pending = << >>
    /\ req = NoRequest
    /\ response = Reply(0, "")

Number(n) == [int |-> TRUE, n |-> n]
NotANumber == [int |-> FALSE, n |-> 0]

PageQueries ==
    {<< >>, [page |-> Number(0)], [limit |-> Number(0)], [limit |-> Number(101)],
     [page |-> NotANumber], [page |-> Number(2), offset |-> Number(5)]}
    \cup {[page |-> Number(p), limit |-> Number(l)] : p \in 1..4, l \in {1, 10, 100}}
    \cup {[limit |-> Number(l), order |-> "asc"] : l \in {5, 23}}

NextPaging == \E query \in PageQueries : GetTasks(AuthOf(1), query)

SpecPaging == InitListed /\ [][NextPaging]_vars

\* C12: an answered GET /tasks has limit in 1..100 and page >= 1, and reports
\* totalPages = the least number of pages of limit tasks that hold
\* totalTasks tasks, hasNextPage = (page < totalPages), hasPrevPage = (page > 1)
C12_PaginationArithmetic ==
    (req.route = "GET /tasks" /\ response.status = 200) =>
        LET p == Val(response.pagination)
            page == req.body.page
            limit == req.body.limit
        IN  /\ page >= 1 /\ limit \in 1..100
            /\ p.currentPage = page
            /\ p.totalTasks = Cardinality(DOMAIN tasks)
            /\ p.totalPages >= 0
            /\ p.totalPages * limit >= p.totalTasks
            /\ (p.totalPages - 1) * limit < p.totalTasks
            /\ p.hasNextPage = (page < p.totalPages)
            /\ p.hasPrevPage = (page > 1)

\* C12 witness: 23 tasks listed with limit 10, page 3: three pages, no next
\* page, a previous page, and the last 3 tasks
C12_Witness ==
    /\ req.route = "GET /tasks" /\ response.status = 200
    /\ req.body.page = 3 /\ req.body.limit = 10
    /\ Val(response.pagination).totalTasks = 23
    /\ Val(response.pagination).totalPages = 3
    /\ ~Val(response.pagination).hasNextPage
    /\ Val(response.pagination).hasPrevPage
    /\ Len(response.tasks) = 3

----------------------------------------------------------------------------
(* Filters: user 1 stores tasks that differ in every filtered column, user  *)
(* 2 stores a task, and both list tasks with each filter, order and page    *)

Day(d) == Some([iso |-> TRUE, day |-> d])

FilterTaskBodies ==
    {[category_id |-> Some(1), status |-> "completed", priority |-> "high",
      title |-> <<"A", "b">>, due_date |-> Day(1)],
     [title |-> <<"b">>, description |-> <<"a", "_">>, due_date |-> Day(0)],
     [priority |-> "low", title |-> <<"c">>]}

FilterQueries ==
    {<< >>,
     [status |-> "pending"], [status |-> "done"],
     [priority |-> "high"],
     [category_id |-> Number(1)], [category_id |-> Number(0)],
     [due_date_from |-> [iso |-> TRUE, day |-> 1]],
     [due_date_to |-> [iso |-> TRUE, day |-> 0]],
     [sort |-> "due_date", order |-> "asc",
      due_date_from |-> [iso |-> TRUE, day |-> 0], due_date_to |-> [iso |-> TRUE, day |-> 1]],
     [due_date_from |-> [iso |-> FALSE, day |-> 0]],
     [search |-> <<"a">>], [search |-> <<"B">>], [search |-> <<"_">>],
     [search |-> <<"%">>], [search |-> << >>],
     [status |-> "pending", priority |-> "medium", search |-> <<"b">>],
     [sort |-> "title"], [sort |-> "title", order |-> "asc"],
     [sort |-> "due_date"], [sort |-> "priority", order |-> "asc"],
     [limit |-> Number(1), sort |-> "updated_at"],
     [page |-> Number(2), limit |-> Number(1)],
     [page |-> Number(2), limit |-> Number(1), sort |-> "title", order |-> "asc"]}

NextFilters ==
    \/ \E raw \in FilterTaskBodies : PostTask(AuthOf(1), raw)
    \/ PostTask(AuthOf(2), [title |-> <<"a", "b">>, due_date |-> Day(1)])
    \/ \E u \in DOMAIN SeedUsers, query \in FilterQueries : GetTasks(AuthOf(u), query)

SpecFilters == InitProduction /\ [][NextFilters]_vars

\* sub is a substring of text, letters compared without case
Contains(text, sub) ==
    \E i \in 0..(Len(text) - Len(sub)) :
        \A j \in 1..Len(sub) : LowerChar(text[i + j]) = LowerChar(sub[j])

\* The task is owned by userId and satisfies every filter of the query q
Satisfies(t, userId, q) ==
    /\ tasks[t].user_id = userId
    /\ "status" \in DOMAIN q => tasks[t].status = q.status
    /\ "priority" \in DOMAIN q => tasks[t].priority = q.priority
    /\ "category_id" \in DOMAIN q => tasks[t].category_id = <<q.category_id>>
    /\ "due_date_from" \in DOMAIN q =>
            tasks[t].due_date # <<>> /\ tasks[t].due_date[1] >= q.due_date_from
    /\ "due_date_to" \in DOMAIN q =>
            tasks[t].due_date # <<>> /\ tasks[t].due_date[1] <= q.due_date_to
    /\ "search" \in DOMAIN q =>
            \/ Contains(tasks[t].title, q.search)
            \/ tasks[t].description # <<>> /\ Contains(tasks[t].description[1], q.search)

\* task a has to come before task b in the order the query asks for
ComesBefore(q, a, b) ==
    IF q.order = "asc" THEN SortLess(q.sort, a, b) ELSE SortLess(q.sort, b, a)

\* C13: an answered GET /tasks of user u reports as totalTasks the number of
\* u's tasks that satisfy every filter of the query, and returns at most
\* limit of those tasks, in the requested order, after (page-1)*limit of them
C13_ListIsFilteredPage ==
    (req.route = "GET /tasks" /\ response.status = 200) =>
        LET q == req.body
            matching == {t \in DOMAIN tasks : Satisfies(t, Val(req.userId), q)}
            offset == (q.page - 1) * q.limit
            rows == response.tasks
            page == {rows[i].id : i \in 1..Len(rows)}
            rest == matching \ page
        IN  /\ Val(response.pagination).totalTasks = Cardinality(matching)
            /\ page \subseteq matching
            /\ Cardinality(page) = Len(rows)
            /\ Len(rows) <= q.limit
            /\ Len(rows) = q.limit \/ Len(rows) = Cardinality(matching) - offset
                    \/ (Len(rows) = 0 /\ Cardinality(matching) <= offset)
            /\ \A i, j \in 1..Len(rows) : i < j => ~ComesBefore(q, rows[j].id, rows[i].id)
            /\ \E skipped \in SUBSET rest :
                    /\ Cardinality(skipped) = offset \/ (skipped = rest /\ page = {})
                    /\ \A x \in skipped, y \in matching \ skipped : ~ComesBefore(q, y, x)
                    /\ \A y \in page, z \in rest \ skipped : ~ComesBefore(q, z, y)

----------------------------------------------------------------------------
(* Statistics: both users store tasks due yesterday, today and later,       *)
(* complete and reopen them and read their statistics while days pass       *)

StatsTaskBodies ==
    {[title |-> <<"a">>, due_date |-> Day(0 - 1)],
     [status |-> "in_progress", title |-> <<"a">>, due_date |-> Day(0)],
     [status |-> "completed", title |-> <<"a">>]}

NextStats ==
    \/ \E raw \in StatsTaskBodies : tasks_id_seq < MaxTasksSmall /\ PostTask(AuthOf(1), raw)
    \/ PostTask(AuthOf(2), [title |-> <<"a">>, due_date |-> Day(0)])
    \/ \E id \in 1..MaxTasksSmall, status \in {"pending", "completed"} :
            PutTask(AuthOf(1), id, [status |-> status])
    \/ \E u \in DOMAIN SeedUsers : GetStats(AuthOf(u), Null)
    \/ \E u \in DOMAIN SeedUsers : GetDashboard(AuthOf(u))
    \/ Tick

SpecStats == InitProduction /\ [][NextStats]_vars

\* The tasks of userId that are not completed and are due before today
Overdue(userId) ==
    {t \in DOMAIN tasks :
        /\ tasks[t].user_id = userId /\ tasks[t].status # "completed"
        /\ tasks[t].due_date # <<>> /\ tasks[t].due_date[1] < now}

\* The tasks of userId that are not completed and are due today
DueToday(userId) ==
    {t \in DOMAIN tasks :
        /\ tasks[t].user_id = userId /\ tasks[t].status # "completed"
        /\ tasks[t].due_date # <<>> /\ tasks[t].due_date[1] = now}

StatsRoutes == {"GET /tasks/stats", "GET /users/dashboard"}

\* C14: GET /tasks/stats and GET /users/dashboard of user u count u's tasks
\* only: overdue_tasks is the number of u's tasks due before the current
\* date and not completed, due_today_tasks the number due on the current
\* date and not completed; nothing stored changes
C14_StatsCountOwnTasks ==
    [][(Answered /\ req'.route \in StatsRoutes /\ req'.next) =>
        LET u == Val(req'.userId)
            stats == Val(response'.stats)
            mine == {t \in DOMAIN tasks : tasks[t].user_id = u}
        IN  /\ response'.status = 200
            /\ stats.total_tasks = Cardinality(mine)
            /\ stats.completed_tasks = Cardinality({t \in mine : tasks[t].status = "completed"})
            /\ stats.pending_tasks = Cardinality({t \in mine : tasks[t].status = "pending"})
            /\ stats.in_progress_tasks =
                    Cardinality({t \in mine : tasks[t].status = "in_progress"})
            /\ stats.overdue_tasks = Cardinality(Overdue(u))
            /\ stats.due_today_tasks = Cardinality(DueToday(u))
            /\ <<store, now>>' = <<store, now>>]_vars

\* C14 witness: user 1's task due yesterday, completed by a PUT, is not
\* counted as overdue, while user 2 has a task that is overdue
C14_Witness ==
    /\ req.route = "GET /tasks/stats" /\ req.userId = Some(1) /\ response.status = 200
    /\ \E t \in DOMAIN tasks :
            /\ tasks[t].user_id = 1 /\ tasks[t].status = "completed"
            /\ ~IsNull(tasks[t].completed_at)
            /\ tasks[t].due_date = Some(now - 1)
    /\ Overdue(2) # {}
    /\ Val(response.stats).overdue_tasks = 0
    /\ Val(response.stats).total_tasks = 1

----------------------------------------------------------------------------
(* Accounts: both users store categories and tasks, some in the other       *)
(* user's category, and delete their accounts                               *)

AccountCategoryIds ==
    {1} \cup ((NumDefaultCategories + 1)..(NumDefaultCategories + MaxCategories))

NextAccount ==
    \/ \E u \in DOMAIN SeedUsers : PostCategory(AuthOf(u), [name |-> <<"a">>])
    \/ \E u \in DOMAIN SeedUsers, c \in AccountCategoryIds :
            /\ c \in DOMAIN categories
            /\ PostTask(AuthOf(u), [category_id |-> Some(c), title |-> <<"a">>])
    \/ \E u \in DOMAIN SeedUsers, raw \in AccountBodies : DeleteAccount(AuthOf(u), raw)

SpecAccount == InitProduction /\ [][NextAccount]_vars

\* C15: a DELETE /users/account that succeeds for user u leaves no user, task
\* or category of u; every other user, every category that is not u's and
\* every task that is not u's stays stored, a task at most losing its
\* category reference; every task left refers to no category or to a stored
\* one.  A request that does not succeed deletes nothing.
C15_AccountDeleteCascades ==
    [][(Handled("DELETE /users/account") /\ req'.next) =>
        LET u == Val(req'.userId)
        IN  IF response'.status = 200
            THEN /\ "password" \in DOMAIN req'.raw
                 /\ users[u].password = [bcrypt |-> req'.raw.password]
                 /\ DOMAIN users' = DOMAIN users \ {u}
                 /\ \A v \in DOMAIN users' : users'[v] = users[v]
                 /\ DOMAIN categories' =
                        {c \in DOMAIN categories : categories[c].user_id # Some(u)}
                 /\ \A c \in DOMAIN categories' : categories'[c] = categories[c]
                 /\ DOMAIN tasks' = {t \in DOMAIN tasks : tasks[t].user_id # u}
                 /\ \A t \in DOMAIN tasks' :
                        /\ [tasks'[t] EXCEPT !.category_id = Null]
                                = [tasks[t] EXCEPT !.category_id = Null]
                        /\ \/ tasks'[t].category_id = Null
                           \/ /\ tasks'[t].category_id = tasks[t].category_id
                              /\ Val(tasks'[t].category_id) \in DOMAIN categories'
            ELSE /\ store' = store
                 /\ \/ "password" \notin DOMAIN req'.raw
                    \/ users[u].password # [bcrypt |-> req'.raw.password]]_vars

\* C15 witness: user 1's account was deleted with its task 1 and category 5;
\* user 2 and its task, which referred to category 5, are still stored
C15_Witness ==
    /\ req.route = "DELETE /users/account" /\ req.userId = Some(1) /\ response.status = 200
    /\ DOMAIN users = {2}
    /\ tasks_id_seq = 2 /\ DOMAIN tasks = {2}
    /\ tasks[2].user_id = 2 /\ tasks[2].category_id = Null
    /\ categories_id_seq = NumDefaultCategories + 1
    /\ DOMAIN categories = DOMAIN DefaultCategories

----------------------------------------------------------------------------
(* Errors: a query of GET /tasks/stats throws, in each environment          *)

\* an Error with a message, and the status some libraries attach
Thrown(message, status) ==
    [name |-> "Error", status |-> status, message |-> message, code |-> Null,
     isJoi |-> FALSE]

ThrownErrors ==
    {PgError(code) : code \in {"23505", "23503", "23502", "42P01", "08006"}}
    \cup {Thrown(Some("connect ECONNREFUSED 127.0.0.1:5432"), Null),
          Thrown(Null, Null),
          Thrown(Some("Not Found"), Some(404)),
          Thrown(Some("pool is draining"), Some(500)),
          [Thrown(Some("jwt malformed"), Null) EXCEPT !.name = "JsonWebTokenError"],
          [Thrown(Some("jwt expired"), Null) EXCEPT !.name = "TokenExpiredError"],
          [Thrown(Some("\"title\" is required"), Null) EXCEPT !.isJoi = TRUE]}

NextErrors ==
    \/ \E u \in DOMAIN SeedUsers, err \in ThrownErrors : GetStats(AuthOf(u), Some(err))
    \/ \E u \in DOMAIN SeedUsers : GetStats(AuthOf(u), Null)
    \/ \E u \in DOMAIN SeedUsers :
            tasks_id_seq < MaxTasksSmall /\ PostTask(AuthOf(u), [title |-> <<"a">>])

SpecErrors == Init /\ [][NextErrors]_vars

\* the messages of the errors thrown
OriginalMessages == {Val(err.message) : err \in {e \in ThrownErrors : ~IsNull(e.message)}}

----------------------------------------------------------------------------
(* middleware/rateLimiter.js *)

\* req.ip
Clients == {"10.0.0.1", "10.0.0.2"}

\* The clock's instants are MsPerTick milliseconds apart; Date.now() does not
\* go backwards
MsPerTick == 400
DateNow == now * MsPerTick

\* process.env.RATE_LIMIT_WINDOW_MS and RATE_LIMIT_MAX_REQUESTS after
\* parseInt; 0 stands for unset or not a number
RATE_LIMIT_WINDOW_MS == 1200
RATE_LIMIT_MAX_REQUESTS == 2

windowMs == IF RATE_LIMIT_WINDOW_MS = 0 THEN 15 * 60 * 1000 ELSE RATE_LIMIT_WINDOW_MS
maxRequests == IF RATE_LIMIT_MAX_REQUESTS = 0 THEN 100 ELSE RATE_LIMIT_MAX_REQUESTS

\* Math.ceil(a / b) for a >= 0, b > 0
MathCeil(a, b) == IF a % b = 0 THEN a \div b ELSE (a \div b) + 1

RECURSIVE FilterFrom(_, _)
FilterFrom(timestamps, windowStart) ==
    IF timestamps = << >> THEN << >>
    ELSE LET rest == FilterFrom(Tail(timestamps), windowStart)
         IN  IF Head(timestamps) >= windowStart THEN <<Head(timestamps)>> \o rest ELSE rest

\* timestamps.filter(timestamp => timestamp > windowStart)
RECURSIVE Filter(_, _)
Filter(timestamps, windowStart) ==
    IF timestamps = << >> THEN << >>
    ELSE LET rest == Filter(Tail(timestamps), windowStart)
         IN  IF Head(timestamps) > windowStart THEN <<Head(timestamps)>> \o rest ELSE rest

TooManyRequests ==
    [Reply(429, "Too many requests, please try again later")
        EXCEPT !.retryAfter = Some(MathCeil(windowMs, 1000))]

rateLimiter(clientId) ==
    LET windowStart == DateNow - windowMs
        record == IF clientId \in DOMAIN rateLimit THEN rateLimit[clientId] ELSE << >>
        recent == Filter(record, windowStart)
        limited == Len(recent) >= maxRequests
        pushed == IF limited THEN recent ELSE Append(recent, DateNow)
    IN  /\ rateLimit' = [c \in DOMAIN rateLimit \cup {clientId} |->
                            IF c = clientId THEN pushed ELSE rateLimit[c]]
        /\ admitted' = IF limited THEN admitted
                       ELSE [c \in DOMAIN admitted \cup {clientId} |->
                                IF c = clientId
                                THEN Append(IF c \in DOMAIN admitted THEN admitted[c] ELSE << >>,
                                            DateNow)
                                ELSE admitted[c]]
        /\ req' = [NoRequest EXCEPT !.route = "rateLimiter", !.ip = Some(clientId),
                                    !.next = ~limited, !.calls = IF limited THEN 0 ELSE 1]
        /\ response' = IF limited THEN TooManyRequests
                       ELSE [Reply(0, "") EXCEPT !.headers =
                                Some([limit |-> maxRequests,
                                      remaining |-> IF maxRequests - Len(pushed) > 0
                                                    THEN maxRequests - Len(pushed) ELSE 0,
                                      reset |-> DateNow + windowMs])]
        /\ UNCHANGED <<store, now, NODE_ENV, pending>>

\* The callback of setInterval
Cleanup ==
    LET recent == [c \in DOMAIN rateLimit |-> Filter(rateLimit[c], DateNow - windowMs)]
    IN  /\ rateLimit' = [c \in {d \in DOMAIN rateLimit : recent[d] # << >>} |-> recent[c]]
        /\ UNCHANGED <<store, now, NODE_ENV, admitted, pending, req, response>>

\* Time passes between requests
Elapse ==
    /\ now < MaxClock
    /\ now' = now + 1
    /\ UNCHANGED <<store, process, req, response>>

NextRateLimit ==
    \/ \E clientId \in Clients : rateLimiter(clientId)
    \/ Cleanup
    \/ Elapse

SpecRateLimit == InitProduction /\ [][NextRateLimit]_vars

\* the requests of a client passed on with a timestamp in the window of
\* length windowMs that ends at the instant to
AdmittedWithin(history, clientId, to) ==
    IF clientId \in DOMAIN history
    THEN {i \in DOMAIN history[clientId] :
            history[clientId][i] > to - windowMs /\ history[clientId][i] <= to}
    ELSE {}

\* a step of rateLimiter for the client (a refusal that repeats the last
\* refusal of the same client leaves every variable as it was)
LimiterStep(clientId) ==
    /\ now' = now
    /\ req'.route = "rateLimiter" /\ req'.ip = Some(clientId)
    /\ req' # req \/ response' # response \/ admitted' # admitted

\* C17: in every window of length windowMs at most maxRequests requests of a
\* client have been passed on; a request that arrives while maxRequests
\* passed timestamps of its client lie in the window is answered 429 with
\* retryAfter the least number of seconds that cover windowMs and is not
\* passed on, any other request is passed on, whatever the other clients did
C17_WindowHoldsMaxRequests ==
    /\ [](\A clientId \in Clients, t \in 0..MaxClock + 1 :
            Cardinality(AdmittedWithin(admitted, clientId, t * MsPerTick)) <= maxRequests)
    /\ [][\A clientId \in Clients :
            LimiterStep(clientId) =>
                IF Cardinality(AdmittedWithin(admitted, clientId, DateNow)) >= maxRequests
                THEN /\ response'.status = 429
                     /\ ~IsNull(response'.retryAfter)
                     /\ Val(response'.retryAfter) * 1000 >= windowMs
                     /\ (Val(response'.retryAfter) - 1) * 1000 < windowMs
                     /\ ~req'.next /\ req'.calls = 0
                     /\ admitted' = admitted
                ELSE /\ req'.next /\ req'.calls = 1
                     /\ response'.status # 429
                     /\ Cardinality(AdmittedWithin(admitted', clientId, DateNow))
                            = Cardinality(AdmittedWithin(admitted, clientId, DateNow)) + 1]_vars

\* a client is refused after its window has moved on past an earlier request
\* of its own, while the other client has been passed on
C17_Witness ==
    /\ req.route = "rateLimiter" /\ response.status = 429
    /\ \E clientId \in Clients :
            /\ req.ip = Some(clientId)
            /\ clientId \in DOMAIN admitted /\ Len(admitted[clientId]) > maxRequests
            /\ \E other \in Clients \ {clientId} : other \in DOMAIN admitted

----------------------------------------------------------------------------
(* Frame of an update: both users store a task, user 2 a category; time     *)
(* passes; user 1 sends updates of task 1 with known and unknown fields     *)

FrameTaskBodies ==
    {[category_id |-> Some(2), status |-> "completed", title |-> <<"a">>,
      description |-> <<"d">>, due_date |-> Day(0)]}

FrameUpdateBodies ==
    {[id |-> 9, created_at |-> 1, user_id |-> 2, title |-> <<"b">>, completed_at |-> Some(1)],
     [status |-> "completed"],
     [status |-> "pending", priority |-> "high", description |-> << >>],
     [category_id |-> Null, due_date |-> Day(1)],
     [category_id |-> Some(9)],
     [user_id |-> 2]}

NextFrame ==
    \/ \E raw \in FrameTaskBodies :
            tasks_id_seq < MaxTasks /\ PostTask(AuthOf((tasks_id_seq % 2) + 1), raw)
    \/ /\ categories_id_seq < NumDefaultCategories + MaxCategoriesSmall
       /\ PostCategory(AuthOf(2), [name |-> <<"a">>])
    \/ \E raw \in FrameUpdateBodies : PutTask(AuthOf(1), 1, raw)
    \/ PutTask(AuthOf(2), 1, [title |-> <<"b">>])
    \/ Tick

SpecFrame == InitProduction /\ [][NextFrame]_vars

\* the value a column takes from the value the body supplies for it: a date
\* text is stored as the date it names
Supplied(column, v) ==
    CASE column = "description" -> Some(v)
      [] column = "due_date" -> (IF IsNull(v) THEN Null ELSE Some(Val(v).day))
      [] OTHER -> v

\* C18: a successful PUT /tasks/:id writes to the caller's task the fields of
\* taskSchemas.update that the body carries, with the values supplied, and
\* updated_at; completed_at can change only when the body carries status;
\* every other column of the task, every other task, every category and user
\* and both sequences stay as they were
C18_PutSetsExactlyPresentFields ==
    [][(Handled("PUT /tasks/:id") /\ now' = now /\ response'.status = 200) =>
        LET id == Val(req'.id)
            raw == req'.raw
            present == DOMAIN raw \cap SchemaKeys("taskSchemas.update")
            written == present \cup {"updated_at"}
                       \cup (IF "status" \in present THEN {"completed_at"} ELSE {})
        IN  /\ id \in DOMAIN tasks /\ tasks[id].user_id = Val(req'.userId)
            /\ DOMAIN tasks' = DOMAIN tasks
            /\ \A t \in DOMAIN tasks \ {id} : tasks'[t] = tasks[t]
            /\ DOMAIN tasks'[id] = DOMAIN tasks[id]
            /\ \A column \in DOMAIN tasks[id] \ written : tasks'[id][column] = tasks[id][column]
            /\ \A column \in present : tasks'[id][column] = Supplied(column, raw[column])
            /\ tasks'[id].updated_at = now
            /\ <<users, categories, categories_id_seq, tasks_id_seq>>'
                    = <<users, categories, categories_id_seq, tasks_id_seq>>]_vars

\* a completed task with a category and a due date, stored before the clock
\* moved, has been given a new title by a body that also names id, user_id,
\* created_at and completed_at, while another task is stored
C18_Witness ==
    /\ req.route = "PUT /tasks/:id" /\ response.status = 200
    /\ {"title", "user_id", "completed_at"} \subseteq DOMAIN req.raw
    /\ 1 \in DOMAIN tasks /\ 2 \in DOMAIN tasks
    /\ tasks[1].title = <<"b">> /\ tasks[1].status = "completed"
    /\ tasks[1].updated_at > tasks[1].created_at
    /\ ~IsNull(tasks[1].completed_at) /\ ~IsNull(tasks[1].category_id)

----------------------------------------------------------------------------
(* Handlers in flight: a handler runs up to its next await, the queries of  *)
(* other requests reach the database in between                             *)

Slots == 1..MaxPending

\* the slot a new request takes: the first that is free, 0 when none is
FreeSlot ==
    IF Slots \ DOMAIN pending = {} THEN 0
    ELSE CHOOSE slot \in Slots \ DOMAIN pending :
            \A other \in Slots \ DOMAIN pending : slot <= other

\* What a handler holds while it awaits: the request, and for PUT
\* /tasks/:id the status that its SELECT returned
InFlight(request, existingStatus) ==
    [request |-> request, existingStatus |-> existingStatus]

\* PUT /api/tasks/:id up to the result of
\* SELECT id, status FROM tasks WHERE id = $1 AND user_id = $2
PutTaskSelect(slot, authHeader, taskId, raw) ==
    LET route == "PUT /tasks/:id"
        auth == authenticateToken(authHeader)
        v == validate("taskSchemas.update", raw)
    IN  /\ slot \in Slots \ DOMAIN pending
        /\ IF ~auth.next THEN Rejected(route, authHeader, auth, Some(taskId), raw)
           ELSE IF v.error # {} THEN Invalid(route, authHeader, auth, Some(taskId), raw, v.error)
           ELSE LET userId == Val(auth.user).id
                    request == Request(route, authHeader, auth, Some(taskId), raw, v.value, TRUE)
                    existingTask == SelectTask(taskId, userId)
                IN  IF existingTask = {}
                    THEN /\ req' = request
                         /\ response' = Reply(404, "Task not found")
                         /\ UNCHANGED <<store, now, process>>
                    ELSE /\ pending' = pending @@ (slot :> InFlight(request, Some(tasks[taskId].status)))
                         /\ UNCHANGED <<store, now, NODE_ENV, rateLimit, admitted, req, response>>

\* PUT /api/tasks/:id from the result of the SELECT on: the SET list is built
\* from the status read then, the UPDATE writes the row as it is stored now
PutTaskUpdate(slot) ==
    /\ slot \in DOMAIN pending
    /\ pending[slot].request.route = "PUT /tasks/:id"
    /\ LET request == pending[slot].request
           taskId == Val(request.id)
           userId == Val(request.userId)
           updates == request.body
           updateFields == UpdateFields(updates)
                @@ CompletedAtField(updates, Val(pending[slot].existingStatus))
       IN  /\ req' = request
           /\ pending' = Without(pending, slot)
           /\ IF NoFields(updateFields)
              THEN /\ response' = Reply(400, "No valid fields to update")
                   /\ tasks' = tasks
              ELSE IF SelectTask(taskId, userId) = {}
              THEN /\ response' = Reply(200, "Task updated successfully")
                   /\ tasks' = tasks
              ELSE LET row == SetColumns(tasks[taskId], updateFields)
                   IN  IF ~CategoryFkHolds(row.category_id)
                       THEN /\ response' = errorHandler(PgError("23503"))
                            /\ tasks' = tasks
                       ELSE /\ response' = [Reply(200, "Task updated successfully")
                                              EXCEPT !.tasks = <<UpdatedTaskRow(taskId, row)>>]
                            /\ tasks' = [tasks EXCEPT ![taskId] = row]
    /\ UNCHANGED <<users, categories, categories_id_seq, tasks_id_seq, now,
                   NODE_ENV, rateLimit, admitted>>

\* POST /api/categories up to the result of
\* SELECT id FROM categories WHERE name = $1 AND user_id = $2
PostCategorySelect(slot, authHeader, raw) ==
    LET route == "POST /categories"
        auth == authenticateToken(authHeader)
        v == validate("categorySchemas.create", raw)
    IN  /\ slot \in Slots \ DOMAIN pending
        /\ IF ~auth.next THEN Rejected(route, authHeader, auth, Null, raw)
           ELSE IF v.error # {} THEN Invalid(route, authHeader, auth, Null, raw, v.error)
           ELSE LET userId == Val(auth.user).id
                    request == Request(route, authHeader, auth, Null, raw, v.value, TRUE)
                    existingCategory == SelectCategoryByName(v.value.name, userId)
                IN  IF existingCategory # {}
                    THEN /\ req' = request
                         /\ response' = Reply(409, "Category with this name already exists")
                         /\ UNCHANGED <<store, now, process>>
                    ELSE /\ pending' = pending @@ (slot :> InFlight(request, Null))
                         /\ UNCHANGED <<store, now, NODE_ENV, rateLimit, admitted, req, response>>

\* POST /api/categories from the result of the SELECT on: INSERT INTO
\* categories (name, color, user_id); the table has no constraint on the
\* name, so the statement does not fail on a name stored meanwhile
PostCategoryInsert(slot) ==
    /\ slot \in DOMAIN pending
    /\ pending[slot].request.route = "POST /categories"
    /\ categories_id_seq < NumDefaultCategories + MaxCategories
    /\ LET request == pending[slot].request
           id == categories_id_seq + 1
           row == [name |-> request.body.name, created_at |-> now,
                   color |-> request.body.color, user_id |-> request.userId]
       IN  /\ req' = request
           /\ pending' = Without(pending, slot)
           /\ categories_id_seq' = id
           /\ categories' = categories @@ (id :> row)
           /\ response' = [Reply(201, "Category created successfully")
                            EXCEPT !.categories =
                                {[id |-> id, name |-> row.name, created_at |-> row.created_at,
                                  color |-> row.color, task_count |-> 0]}]
    /\ UNCHANGED <<users, tasks, tasks_id_seq, now, NODE_ENV, rateLimit, admitted>>

----------------------------------------------------------------------------
(* Concurrent updates: user 1 stores a pending task; updates of its status  *)
(* and title by both users are in flight together; time passes              *)

ConcurrentUpdateBodies ==
    {[status |-> "pending"], [status |-> "completed"], [title |-> <<"b">>]}

NextConcurrentPut ==
    \/ tasks_id_seq < MaxTasksSmall /\ PostTask(AuthOf(1), [title |-> <<"a">>])
    \/ \E raw \in ConcurrentUpdateBodies : PutTaskSelect(FreeSlot, AuthOf(1), 1, raw)
    \/ PutTaskSelect(FreeSlot, AuthOf(2), 1, [status |-> "completed"])
    \/ \E slot \in Slots : PutTaskUpdate(slot)
    \/ Tick

SpecConcurrentPut == InitProduction /\ [][NextConcurrentPut]_vars

\* C19: when no PUT /tasks/:id is in flight, every stored task has
\* completed_at non-null if and only if its status is 'completed' (the task
\* is stored as pending without completed_at and only PUT requests follow)
C19_CompletedAtIffCompletedWhenQuiet ==
    pending = << >> =>
        \A t \in DOMAIN tasks :
            (~IsNull(tasks[t].completed_at)) <=> (tasks[t].status = "completed")

----------------------------------------------------------------------------
(* Concurrent creation: both users send POST /categories with one of two    *)
(* names, and the requests are in flight together                           *)

ConcurrentCategoryBodies == {[name |-> <<"a">>], [name |-> <<"b">>]}

NextConcurrentPost ==
    \/ \E u \in DOMAIN SeedUsers, raw \in ConcurrentCategoryBodies :
            PostCategorySelect(FreeSlot, AuthOf(u), raw)
    \/ \E slot \in Slots : PostCategoryInsert(slot)
    \/ \E u \in DOMAIN SeedUsers : PostCategorySelect(FreeSlot, AuthOf(u), << >>)

SpecConcurrentPost == InitProduction /\ [][NextConcurrentPost]_vars

\* C20: no two stored categories have the same owning user and name, and a
\* POST /categories that ends while a category of its caller and name is
\* stored is answered 409 'Category with this name already exists' and
\* stores nothing
C20_OneCategoryPerNameUnderRace ==
    /\ [](\A c1, c2 \in DOMAIN categories :
            (/\ ~IsNull(categories[c1].user_id)
             /\ categories[c1].user_id = categories[c2].user_id
             /\ categories[c1].name = categories[c2].name)
            => c1 = c2)
    /\ [][(Handled("POST /categories") /\ req'.handled
            /\ SelectCategoryByName(req'.body.name, Val(req'.userId)) # {})
          => /\ response'.status = 409
             /\ response'.message = "Category with this name already exists"
             /\ categories' = categories]_vars

----------------------------------------------------------------------------
(* Update against deletion: user 1 stores tasks; updates of task 1 by both  *)
(* users are in flight while DELETE /tasks/:id requests are handled          *)

UpdateAgainstDeleteBodies ==
    {[title |-> <<"b">>], [status |-> "completed"]}

NextPutDelete ==
    \/ tasks_id_seq < MaxTasksSmall /\ PostTask(AuthOf(1), [title |-> <<"a">>])
    \/ \E u \in DOMAIN SeedUsers, raw \in UpdateAgainstDeleteBodies :
            PutTaskSelect(FreeSlot, AuthOf(u), 1, raw)
    \/ \E slot \in Slots : PutTaskUpdate(slot)
    \/ \E u \in DOMAIN SeedUsers : DeleteTask(AuthOf(u), 1)
    \/ Tick

SpecPutDelete == InitProduction /\ [][NextPutDelete]_vars

\* the rows that UPDATE tasks ... WHERE id = $n AND user_id = $m changes
RowsOfUpdate(id, userId) ==
    {t \in DOMAIN tasks : t = id /\ tasks[t].user_id = userId}

\* C21: a PUT /tasks/:id with recognized fields that ends with success has
\* changed one row and answers with that row as it is stored; one whose
\* update statement finds no row of the caller with the id (not stored, not
\* the caller's, or deleted since the lookup) is answered 404 'Task not
\* found' and writes nothing
C21_PutSuccessOnlyWithRow ==
    [][(Handled("PUT /tasks/:id") /\ req'.handled) =>
        LET id == Val(req'.id)
            rows == RowsOfUpdate(id, Val(req'.userId))
        IN  /\ response'.status = 200 =>
                /\ rows = {id} /\ id \in DOMAIN tasks'
                /\ Len(response'.tasks) = 1
                /\ response'.tasks[1].id = id
                /\ \A column \in DOMAIN response'.tasks[1] \ {"id"} :
                        response'.tasks[1][column] = tasks'[id][column]
            /\ rows = {} =>
                /\ response'.status = 404 /\ response'.message = "Task not found"
                /\ tasks' = tasks]_vars

----------------------------------------------------------------------------
(* All requests *)

Next ==
    \/ NextStatus
    \/ NextOwnership
    \/ NextCategories
    \/ NextUpdates
    \/ NextCategoryTasks
    \/ NextAuth
    \/ NextOptionalAuth
    \/ NextPaging
    \/ NextFilters
    \/ NextStats
    \/ NextAccount
    \/ NextErrors
    \/ NextRateLimit
    \/ NextFrame
    \/ NextConcurrentPut
    \/ NextConcurrentPost
    \/ NextPutDelete

Spec == Init /\ [][Next]_vars

====
